---- MODULE Spec2Model ----
(***************************************************************************)
(* Guanaco chat UI: the Markdown pipeline of internal/ui (normalizeMarkdown,*)
(* MarkdownRenderer.ToPango, MarkdownRenderer.Parse) and the MessageBubble  *)
(* widget that displays a message with it.                                  *)
(*                                                                          *)
(* A Go string is a sequence of lexemes.  A lexeme is one ASCII character,  *)
(* or a fixed multi-byte text that the pipeline only ever treats as a unit: *)
(* a run of three backticks, one non-ASCII glyph (written U+XXXX here), an  *)
(* HTML entity, or a complete Pango tag.  ByteLen gives the number of bytes *)
(* a lexeme stands for, FirstByte/LastByte its first and last byte.         *)
(***************************************************************************)
EXTENDS Integers, Sequences, FiniteSets, TLC

SP == " "
NL == "\n"
TAB == "\t"
\* three backticks, the fence marker (a backtick cannot be written in a string)
FENCE == "BACKTICKx3"

\* The three bullet glyphs normalizeMarkdown rewrites, and the glyphs the
\* renderer emits.
BulletDot == "U+2022"
BulletSquare == "U+25AA"
BulletTriangle == "U+25B8"
RuleGlyphs == "U+2500*8"
QuoteBar == "U+258E"

SpanXLarge == "<span size=\"x-large\" weight=\"bold\">"
SpanLarge == "<span size=\"large\" weight=\"bold\">"
SpanMedium == "<span size=\"medium\" weight=\"bold\">"
SpanClose == "</span>"

\* Complete HTML tags: the ones renderNode emits.  Goldmark's inline parser
\* reads each of them back as one RawHTML node.
TagLexemes ==
  {SpanXLarge, SpanLarge, SpanMedium, SpanClose,
   "<b>", "</b>", "<i>", "</i>", "<tt>", "</tt>", "<s>", "</s>"}

EntityLexemes == {"&amp;", "&lt;", "&gt;", "&#34;", "&#39;"}

\* a complete tag as html.EscapeString writes it
EscapedTag(a) ==
  CASE a = SpanXLarge -> "&lt;span size=&#34;x-large&#34; weight=&#34;bold&#34;&gt;"
    [] a = SpanLarge -> "&lt;span size=&#34;large&#34; weight=&#34;bold&#34;&gt;"
    [] a = SpanMedium -> "&lt;span size=&#34;medium&#34; weight=&#34;bold&#34;&gt;"
    [] a = SpanClose -> "&lt;/span&gt;"
    [] a = "<b>" -> "&lt;b&gt;"
    [] a = "</b>" -> "&lt;/b&gt;"
    [] a = "<i>" -> "&lt;i&gt;"
    [] a = "</i>" -> "&lt;/i&gt;"
    [] a = "<tt>" -> "&lt;tt&gt;"
    [] a = "</tt>" -> "&lt;/tt&gt;"
    [] a = "<s>" -> "&lt;s&gt;"
    [] a = "</s>" -> "&lt;/s&gt;"

EscapedTagLexemes ==
  {"&lt;span size=&#34;x-large&#34; weight=&#34;bold&#34;&gt;",
   "&lt;span size=&#34;large&#34; weight=&#34;bold&#34;&gt;",
   "&lt;span size=&#34;medium&#34; weight=&#34;bold&#34;&gt;",
   "&lt;/span&gt;", "&lt;b&gt;", "&lt;/b&gt;", "&lt;i&gt;", "&lt;/i&gt;",
   "&lt;tt&gt;", "&lt;/tt&gt;", "&lt;s&gt;", "&lt;/s&gt;"}

Digits == {"0", "1", "2", "3", "4", "5", "6", "7", "8", "9"}

ByteLen(a) ==
  CASE a = FENCE -> 3
    [] a \in {BulletDot, BulletSquare, BulletTriangle, QuoteBar} -> 3
    [] a = RuleGlyphs -> 24
    [] a = SpanXLarge -> 35
    [] a = SpanLarge -> 33
    [] a = SpanMedium -> 34
    [] a = SpanClose -> 7
    [] a \in {"<b>", "<i>", "<s>"} -> 3
    [] a \in {"</b>", "</i>", "</s>", "<tt>", "&lt;", "&gt;"} -> 4
    [] a \in {"</tt>", "&amp;", "&#34;", "&#39;"} -> 5
    [] a = "&lt;span size=&#34;x-large&#34; weight=&#34;bold&#34;&gt;" -> 57
    [] a = "&lt;span size=&#34;large&#34; weight=&#34;bold&#34;&gt;" -> 55
    [] a = "&lt;span size=&#34;medium&#34; weight=&#34;bold&#34;&gt;" -> 56
    [] a = "&lt;/span&gt;" -> 13
    [] a \in {"&lt;b&gt;", "&lt;i&gt;", "&lt;s&gt;"} -> 9
    [] a \in {"&lt;/b&gt;", "&lt;/i&gt;", "&lt;/s&gt;", "&lt;tt&gt;"} -> 10
    [] a = "&lt;/tt&gt;" -> 11
    [] OTHER -> 1

FirstByte(a) ==
  CASE a = FENCE -> "BACKTICK"
    [] a \in TagLexemes -> "<"
    [] a \in EntityLexemes \cup EscapedTagLexemes -> "&"
    [] a \in {BulletDot, BulletSquare, BulletTriangle, QuoteBar, RuleGlyphs} -> "0xE2"
    [] OTHER -> a

LastByte(a) ==
  CASE a = FENCE -> "BACKTICK"
    [] a \in TagLexemes -> ">"
    [] a \in EntityLexemes \cup EscapedTagLexemes -> ";"
    [] a \in {BulletDot, BulletSquare, BulletTriangle, QuoteBar, RuleGlyphs} -> "0x80+"
    [] OTHER -> a

(***************************************************************************)
(* Package strings                                                         *)
(***************************************************************************)
RECURSIVE ByteCount(_)
ByteCount(s) == IF s = <<>> THEN 0 ELSE ByteLen(Head(s)) + ByteCount(Tail(s))

RECURSIVE Concat(_)
Concat(ss) == IF ss = <<>> THEN <<>> ELSE Head(ss) \o Concat(Tail(ss))

\* unicode.IsSpace restricted to the lexemes of the model
IsSpace(a) == a \in {SP, TAB, NL, "\r"}

RECURSIVE LeftCount(_, _, _)
\* number of leading lexemes of s, from position i on, that lie in cutset
LeftCount(s, i, cutset) ==
  IF i > Len(s) \/ s[i] \notin cutset THEN 0 ELSE 1 + LeftCount(s, i + 1, cutset)

RECURSIVE RightCount(_, _, _)
RightCount(s, i, cutset) ==
  IF i < 1 \/ s[i] \notin cutset THEN 0 ELSE 1 + RightCount(s, i - 1, cutset)

TrimLeft(s, cutset) == SubSeq(s, LeftCount(s, 1, cutset) + 1, Len(s))

TrimRight(s, cutset) == SubSeq(s, 1, Len(s) - RightCount(s, Len(s), cutset))

TrimSpace(s) == TrimRight(TrimLeft(s, {SP, TAB, NL, "\r"}), {SP, TAB, NL, "\r"})

\* strings.HasPrefix(s, p) for a prefix p of one byte or one whole lexeme
HasPrefix(s, p) == Len(s) > 0 /\ (s[1] = p \/ (ByteLen(p) = 1 /\ FirstByte(s[1]) = p))

HasSuffix(s, p) == Len(s) > 0 /\ (s[Len(s)] = p \/ (ByteLen(p) = 1 /\ LastByte(s[Len(s)]) = p))

TrimPrefix(s, p) == IF HasPrefix(s, p) /\ s[1] = p THEN Tail(s) ELSE s

\* strings.Contains(s, p) for a one-lexeme p
Contains(s, p) == \E i \in 1..Len(s) : s[i] = p

\* strings.Split(s, sep): the pieces of s before, between and after the
\* separators, always at least one element
Split(s, sep) ==
  LET at == SelectSeq([i \in 1..Len(s) |-> i], LAMBDA i : s[i] = sep)
  IN [k \in 1..(Len(at) + 1) |->
        SubSeq(s, IF k = 1 THEN 1 ELSE at[k - 1] + 1,
                  IF k > Len(at) THEN Len(s) ELSE at[k] - 1)]

RECURSIVE Join(_, _)
Join(ss, sep) ==
  IF ss = <<>> THEN <<>>
  ELSE IF Len(ss) = 1 THEN ss[1]
  ELSE ss[1] \o <<sep>> \o Join(Tail(ss), sep)

\* the result left as it is: no run of newlines is shortened
KeepNewlines(s) == s

\* regexp \n{3,} replaced by "\n\n", leftmost-longest: of every run of
\* newlines the first two stay, the others go
CollapseNewlines(s) ==
  LET kept == SelectSeq([i \in 1..Len(s) |-> i],
                        LAMBDA i : ~(i >= 3 /\ s[i] = NL /\ s[i - 1] = NL /\ s[i - 2] = NL))
  IN [k \in 1..Len(kept) |-> s[kept[k]]]

(***************************************************************************)
(* Package html                                                            *)
(***************************************************************************)
UnescapeLexeme(a) ==
  CASE a = "&amp;" -> "&"
    [] a = "&lt;" -> "<"
    [] a = "&gt;" -> ">"
    [] a = "&#34;" -> "\""
    [] a = "&#39;" -> "'"
    [] a \in EscapedTagLexemes -> CHOOSE t \in TagLexemes : EscapedTag(t) = a
    [] OTHER -> a

\* html.UnescapeString
UnescapeString(s) == [i \in 1..Len(s) |-> UnescapeLexeme(s[i])]

EscapeLexeme(a) ==
  CASE a = "&" -> "&amp;"
    [] a = "<" -> "&lt;"
    [] a = ">" -> "&gt;"
    [] a = "\"" -> "&#34;"
    [] a = "'" -> "&#39;"
    [] a \in TagLexemes -> EscapedTag(a)
    [] OTHER -> a

\* html.EscapeString
EscapeString(s) == [i \in 1..Len(s) |-> EscapeLexeme(s[i])]

(***************************************************************************)
(* normalizeMarkdown                                                       *)
(***************************************************************************)
\* trimmed[0] is a digit and trimmed[:3] contains "."
isOrderedList(trimmed) ==
  /\ ByteCount(trimmed) > 2
  /\ trimmed[1] \in Digits
  /\ \E k \in 2..3 : k <= Len(trimmed) /\ trimmed[k] = "."
                     /\ \A j \in 1..(k - 1) : ByteLen(trimmed[j]) = 1

isBulletLine(trimmed) ==
  HasPrefix(trimmed, BulletDot) \/ HasPrefix(trimmed, BulletSquare)
    \/ HasPrefix(trimmed, BulletTriangle)

\* bulletRewrite without the list marker it puts in place of the glyph
bulletRewriteDropsMarker(line, trimmed) ==
  LET indent == SubSeq(line, 1, Len(line) - Len(TrimLeft(line, {SP, TAB})))
      rest == TrimPrefix(TrimPrefix(TrimPrefix(trimmed, BulletDot), BulletSquare),
                         BulletTriangle)
  IN indent \o TrimLeft(rest, {SP})

bulletRewrite(line, trimmed) ==
  LET indent == SubSeq(line, 1, Len(line) - Len(TrimLeft(line, {SP, TAB})))
      rest == TrimPrefix(TrimPrefix(TrimPrefix(trimmed, BulletDot), BulletSquare),
                         BulletTriangle)
  IN indent \o <<"-", SP>> \o TrimLeft(rest, {SP})

isHeaderCandidate(trimmed) ==
  /\ ByteCount(trimmed) > 0
  /\ ByteCount(trimmed) < 60
  /\ ~isOrderedList(trimmed)
  /\ ~HasPrefix(trimmed, "#")
  /\ ~HasPrefix(trimmed, "-")
  /\ ~HasPrefix(trimmed, "*")
  /\ ~HasPrefix(trimmed, ">")
  /\ ~HasPrefix(trimmed, "|")
  /\ ~HasPrefix(trimmed, "[")
  /\ ~Contains(trimmed, FENCE)
  /\ ~HasSuffix(trimmed, ".")
  /\ ~HasSuffix(trimmed, ",")
  /\ ~HasSuffix(trimmed, ";")
  /\ ~HasSuffix(trimmed, "?")
  /\ ~HasSuffix(trimmed, "!")
  /\ ~HasSuffix(trimmed, ":")

isAfterBlank(lines, i) == i = 1 \/ TrimSpace(lines[i - 1]) = <<>>

\* hasContentAfter without the test that the next line is not a heading
hasContentAfterAnyLine(lines, i) ==
  i < Len(lines) /\ TrimSpace(lines[i + 1]) # <<>>

hasContentAfter(lines, i) ==
  /\ i < Len(lines)
  /\ LET nextLine == TrimSpace(lines[i + 1])
     IN nextLine # <<>> /\ ~HasPrefix(nextLine, "#")

\* a line that never counts as a fence line: code blocks are not tracked
isFenceLineNever(trimmed) == FALSE

\* "Track code blocks": the trimmed line starts with the fence marker
isFenceLine(trimmed) == HasPrefix(trimmed, FENCE)

RECURSIVE normalizeLines(_, _, _)
\* the loop of normalizeMarkdown from line i on (1-based)
normalizeLines(lines, i, inCodeBlock) ==
  IF i > Len(lines) THEN <<>>
  ELSE LET line == lines[i]
           trimmed == TrimSpace(line)
       IN IF isFenceLine(trimmed)
            THEN <<line>> \o normalizeLines(lines, i + 1, ~inCodeBlock)
          ELSE IF inCodeBlock
            THEN <<line>> \o normalizeLines(lines, i + 1, inCodeBlock)
          ELSE IF isBulletLine(trimmed)
            THEN <<bulletRewrite(line, trimmed)>> \o normalizeLines(lines, i + 1, inCodeBlock)
          ELSE IF isHeaderCandidate(trimmed) /\ isAfterBlank(lines, i) /\ hasContentAfter(lines, i)
            THEN <<(<<"#", "#", SP>> \o trimmed)>> \o normalizeLines(lines, i + 1, inCodeBlock)
          ELSE <<line>> \o normalizeLines(lines, i + 1, inCodeBlock)

\* normalizeMarkdown that drops the blank lines of its result
normalizeMarkdownDropsBlank(text) ==
  Join(SelectSeq(normalizeLines(Split(text, NL), 1, FALSE),
                 LAMBDA line : TrimSpace(line) # <<>>), NL)

normalizeMarkdown(text) == Join(normalizeLines(Split(text, NL), 1, FALSE), NL)

(***************************************************************************)
(* The goldmark parser, r.md.Parser().Parse(reader), for the CommonMark    *)
(* constructs the inputs of this model contain: blank lines, backtick      *)
(* fenced code blocks, indented code blocks, ATX headings, thematic        *)
(* breaks, HTML blocks made of one complete tag, tight lists whose items   *)
(* are written with "-" or with a number and a period and hold a           *)
(* paragraph and, after it, the items of nested lists, and                 *)
(* paragraphs whose inline content is text, strong emphasis written with   *)
(* two asterisks, raw HTML tags and line breaks.  InDomain (below) says    *)
(* that a source uses nothing else.                                        *)
(***************************************************************************)
\* the lines of a source; a final newline ends the last line, it starts none
SourceLines(src) ==
  IF src = <<>> THEN <<>>
  ELSE LET ls == Split(src, NL)
       IN IF ls[Len(ls)] = <<>> THEN SubSeq(ls, 1, Len(ls) - 1) ELSE ls

IsBlankLine(line) == \A k \in 1..Len(line) : line[k] \in {SP, TAB}

Indent(line) == LeftCount(line, 1, {SP})

\* the line without its first n columns of indentation (or fewer, if it has fewer)
StripIndent(line, n) ==
  LET k == IF Indent(line) < n THEN Indent(line) ELSE n
  IN SubSeq(line, k + 1, Len(line))

\* number of fence lexemes that open line, 0 if none
FenceRun(line) ==
  IF Indent(line) <= 3 THEN LeftCount(line, Indent(line) + 1, {FENCE}) ELSE 0

FenceInfo(line) == TrimSpace(SubSeq(line, Indent(line) + FenceRun(line) + 1, Len(line)))

IsFenceOpen(line) == FenceRun(line) >= 1 /\ ~Contains(FenceInfo(line), FENCE)

IsFenceClose(line, openRun) == FenceRun(line) >= openRun /\ FenceInfo(line) = <<>>

RECURSIVE FindFenceClose(_, _, _)
\* the first closing fence line from line i on, 0 if the block runs to the end
FindFenceClose(L, i, openRun) ==
  IF i > Len(L) THEN 0
  ELSE IF IsFenceClose(L[i], openRun) THEN i
  ELSE FindFenceClose(L, i + 1, openRun)

HashRun(line) == IF Indent(line) <= 3 THEN LeftCount(line, Indent(line) + 1, {"#"}) ELSE 0

IsATXHeading(line) ==
  /\ HashRun(line) \in 1..6
  /\ LET after == Indent(line) + HashRun(line) + 1
     IN after > Len(line) \/ line[after] \in {SP, TAB}

HeadingText(line) == TrimSpace(SubSeq(line, Indent(line) + HashRun(line) + 1, Len(line)))

IsThematicBreak(line) ==
  /\ Indent(line) <= 3
  /\ \E c \in {"*", "-", "_"} :
       /\ \A k \in 1..Len(line) : line[k] \in {c, SP, TAB}
       /\ Cardinality({k \in 1..Len(line) : line[k] = c}) >= 3

\* HTML block, start condition 7: one complete tag and nothing else on the line
IsHTMLBlockStart(line) ==
  /\ Indent(line) <= 3
  /\ Len(line) > Indent(line)
  /\ line[Indent(line) + 1] \in TagLexemes
  /\ IsBlankLine(SubSeq(line, Indent(line) + 2, Len(line)))

RECURSIVE LastBeforeBlank(_, _)
\* the last line of the run of non-blank lines that starts at line i
LastBeforeBlank(L, i) ==
  IF i + 1 > Len(L) \/ IsBlankLine(L[i + 1]) THEN i ELSE LastBeforeBlank(L, i + 1)

\* a bullet list item written with "-": the marker, then a space or the end
IsBulletItem(line) ==
  /\ Indent(line) <= 3
  /\ Len(line) > Indent(line)
  /\ line[Indent(line) + 1] = "-"
  /\ (Len(line) = Indent(line) + 1 \/ line[Indent(line) + 2] \in {SP, TAB})
  /\ ~IsThematicBreak(line)

\* n, if the number of an ordered list marker may have n digits after ind
\* columns of indentation: at most three columns and one to nine digits
MarkerDigits(ind, n) == IF ind <= 3 /\ n \in 1..9 THEN n ELSE 0

\* the number of digits that open the line, if it has at most three columns
\* of indentation and one to nine digits
OrderedDigits(line) ==
  MarkerDigits(Indent(line), LeftCount(line, Indent(line) + 1, Digits))

\* the period of an ordered list marker at column d, then a space or the end
EndsMarker(line, d) ==
  /\ d <= Len(line)
  /\ line[d] = "."
  /\ (Len(line) = d \/ line[d + 1] \in {SP, TAB})

\* an ordered list item written with ".": the number, the period, then a
\* space or the end
IsOrderedItem(line) ==
  /\ OrderedDigits(line) > 0
  /\ EndsMarker(line, Indent(line) + OrderedDigits(line) + 1)

\* the width of the list marker that opens an item line
MarkerWidth(line) == IF IsOrderedItem(line) THEN OrderedDigits(line) + 1 ELSE 1

\* the text of an item's first line, after the marker
ItemText(line) ==
  TrimLeft(SubSeq(line, Indent(line) + MarkerWidth(line) + 1, Len(line)), {SP, TAB})

\* the column an item's content starts at, its marker ending at column m
OffsetAfter(line, m) == m + LeftCount(line, m + 1, {SP})

\* the column an item's content starts at
ItemOffset(line) == OffsetAfter(line, Indent(line) + MarkerWidth(line))

\* two item lines that belong to the same kind of list
SameListKind(a, b) ==
  \/ IsBulletItem(a) /\ IsBulletItem(b)
  \/ IsOrderedItem(a) /\ IsOrderedItem(b)

InterruptsParagraph(line) ==
  \/ IsFenceOpen(line) \/ IsATXHeading(line) \/ IsThematicBreak(line)
  \/ /\ ItemText(line) # <<>>
     /\ \/ IsBulletItem(line)
        \/ /\ IsOrderedItem(line)
           /\ SubSeq(line, Indent(line) + 1, Indent(line) + OrderedDigits(line)) = <<"1">>

RECURSIVE ParagraphEnd(_, _)
ParagraphEnd(L, i) ==
  IF i + 1 > Len(L) \/ IsBlankLine(L[i + 1]) \/ InterruptsParagraph(L[i + 1]) THEN i
  ELSE ParagraphEnd(L, i + 1)

RECURSIVE SkipBlank(_, _)
\* the first non-blank line from i on (Len(L) + 1 if there is none)
SkipBlank(L, i) == IF i > Len(L) \/ ~IsBlankLine(L[i]) THEN i ELSE SkipBlank(L, i + 1)

RECURSIVE NestedEnd(_, _, _)
\* the last line of the item content that goes on after line j: the lines
\* that follow without a blank line between and are indented to the column
\* offset, where the item's content starts
NestedEnd(L, j, offset) ==
  IF j + 1 <= Len(L) /\ ~IsBlankLine(L[j + 1]) /\ Indent(L[j + 1]) >= offset
    THEN NestedEnd(L, j + 1, offset)
  ELSE j

\* the last line of the list item that starts at line i: its paragraph, then
\* the blocks nested in the item
ItemEnd(L, i) == NestedEnd(L, ParagraphEnd(L, i), ItemOffset(L[i]))

RECURSIVE ListItemStarts(_, _)
\* the item that starts at i and the items after it, k being the first
\* non-blank line after item i
ItemStartsBefore(L, i, k) ==
  IF k <= Len(L) /\ SameListKind(L[k], L[i]) /\ Indent(L[k]) < ItemOffset(L[i])
    THEN <<i>> \o ListItemStarts(L, k)
  ELSE <<i>>

\* the first lines of the items of the list whose first item starts at i:
\* an item runs over its lazy continuation lines and the blocks nested in
\* it; the list goes on, across blank lines, while the next line is a
\* sibling item
ListItemStarts(L, i) == ItemStartsBefore(L, i, SkipBlank(L, ItemEnd(L, i) + 1))

RECURSIVE CodeBlockEnd(_, _, _)
\* the last indented line of the chunk run starting at i; last is the last
\* indented line seen so far
CodeBlockEnd(L, i, last) ==
  IF i > Len(L) THEN last
  ELSE IF IsBlankLine(L[i]) THEN CodeBlockEnd(L, i + 1, last)
  ELSE IF Indent(L[i]) >= 4 THEN CodeBlockEnd(L, i + 1, i)
  ELSE last

(***************************************************************************)
(* Inline parsing                                                          *)
(***************************************************************************)
TextNode(value, soft) == [kind |-> "Text", value |-> value, softBreak |-> soft]

\* a closing run of two asterisks at j: exactly two, preceded by a non-space
IsStrongCloser(s, j) ==
  /\ s[j] = "*"
  /\ LeftCount(s, j, {"*"}) = 2
  /\ j > 1 /\ ~IsSpace(s[j - 1]) /\ s[j - 1] # "*"

RECURSIVE FindStrongCloser(_, _)
FindStrongCloser(s, j) ==
  IF j > Len(s) THEN 0
  ELSE IF IsStrongCloser(s, j) THEN j
  ELSE FindStrongCloser(s, j + 1)

\* an opening run of two asterisks at i: exactly two, followed by a non-space
IsStrongOpener(s, i) ==
  /\ LeftCount(s, i, {"*"}) = 2
  /\ i + 2 <= Len(s) /\ ~IsSpace(s[i + 2])
  /\ FindStrongCloser(s, i + 3) > 0

FlushText(cur) == IF cur = <<>> THEN <<>> ELSE <<TextNode(cur, FALSE)>>

RECURSIVE ParseInline(_, _, _)
\* the inline nodes of s from position i on; cur is the text read so far
ParseInline(s, i, cur) ==
  IF i > Len(s) THEN FlushText(cur)
  ELSE IF s[i] = NL
    THEN <<TextNode(TrimRight(cur, {SP, TAB}), TRUE)>> \o ParseInline(s, i + 1, <<>>)
  ELSE IF s[i] \in TagLexemes
    THEN FlushText(cur) \o <<[kind |-> "RawHTML"]>> \o ParseInline(s, i + 1, <<>>)
  ELSE IF s[i] = "*" /\ IsStrongOpener(s, i)
    THEN LET j == FindStrongCloser(s, i + 3)
         IN FlushText(cur)
              \o <<[kind |-> "Emphasis", level |-> 2,
                    children |-> ParseInline(SubSeq(s, i + 2, j - 1), 1, <<>>)]>>
              \o ParseInline(s, j + 2, <<>>)
  ELSE IF s[i] = "*"
    THEN LET run == LeftCount(s, i, {"*"})
         IN ParseInline(s, i + run, cur \o SubSeq(s, i, i + run - 1))
  ELSE ParseInline(s, i + 1, Append(cur, s[i]))

\* the content of a paragraph: its lines without leading whitespace, the
\* last one without trailing whitespace
ParagraphText(L, i, j) ==
  TrimRight(Join([k \in 1..(j - i + 1) |-> TrimLeft(L[i + k - 1], {SP, TAB})], NL),
            {SP, TAB})

\* the paragraph of the list item that starts at line i: the text after the
\* marker and the item's continuation lines
ItemParagraph(L, i) ==
  LET j == ParagraphEnd(L, i)
  IN TrimRight(Join(<<ItemText(L[i])>>
                      \o [k \in 1..(j - i) |-> TrimLeft(L[i + k], {SP, TAB})], NL),
               {SP, TAB})

(***************************************************************************)
(* Block parsing: the children of the Document node, in order.  first and  *)
(* last are the source lines (1-based) a node was read from.               *)
(***************************************************************************)
\* the lines j+1..e of an item, without the indentation up to the column
\* offset where the item's content starts
NestedLines(L, j, e, offset) == [k \in 1..(e - j) |-> StripIndent(L[j + k], offset)]

RECURSIVE ParseBlocks(_, _)
\* the list item that starts at line i: its paragraph, the lines i..j, as a
\* TextBlock (the list is tight), then the blocks of the lines j+1..e
ListItem(L, i, j, e) ==
  [kind |-> "ListItem",
   children |-> <<[kind |-> "TextBlock",
                   children |-> ParseInline(ItemParagraph(L, i), 1, <<>>)]>>
                  \o ParseBlocks(NestedLines(L, j, e, ItemOffset(L[i])), 1)]

\* the list whose items start at the lines starts and which ends at line j,
\* and the blocks after it
ListBefore(L, i, starts, j) ==
  <<[kind |-> "List", ordered |-> IsOrderedItem(L[i]), first |-> i, last |-> j,
     starts |-> starts,
     children |-> [k \in 1..Len(starts) |->
                     ListItem(L, starts[k], ParagraphEnd(L, starts[k]),
                              ItemEnd(L, starts[k]))]]>>
    \o ParseBlocks(L, j + 1)

\* the list whose first item starts at line i, and the blocks after it
ListFrom(L, i, starts) == ListBefore(L, i, starts, ItemEnd(L, starts[Len(starts)]))

\* the paragraph of the lines i..j, and the blocks after it
ParagraphBefore(L, i, j) ==
  <<[kind |-> "Paragraph", first |-> i, last |-> j,
     children |-> ParseInline(ParagraphText(L, i, j), 1, <<>>)]>>
    \o ParseBlocks(L, j + 1)

ParseBlocks(L, i) ==
  IF i > Len(L) THEN <<>>
  ELSE IF IsBlankLine(L[i]) THEN ParseBlocks(L, i + 1)
  ELSE IF Indent(L[i]) >= 4
    THEN LET j == CodeBlockEnd(L, i + 1, i)
         IN <<[kind |-> "CodeBlock", first |-> i, last |-> j,
               lines |-> [k \in 1..(j - i + 1) |-> StripIndent(L[i + k - 1], 4)]]>>
              \o ParseBlocks(L, j + 1)
  ELSE IF IsFenceOpen(L[i])
    THEN LET c == FindFenceClose(L, i + 1, FenceRun(L[i]))
             j == IF c = 0 THEN Len(L) ELSE c - 1
         IN <<[kind |-> "FencedCodeBlock", first |-> i + 1, last |-> j,
               info |-> FenceInfo(L[i]),
               lines |-> [k \in 1..(j - i) |-> StripIndent(L[i + k], Indent(L[i]))]]>>
              \o ParseBlocks(L, IF c = 0 THEN Len(L) + 1 ELSE c + 1)
  ELSE IF IsATXHeading(L[i])
    THEN <<[kind |-> "Heading", level |-> HashRun(L[i]), first |-> i, last |-> i,
            children |-> ParseInline(HeadingText(L[i]), 1, <<>>)]>>
           \o ParseBlocks(L, i + 1)
  ELSE IF IsThematicBreak(L[i])
    THEN <<[kind |-> "ThematicBreak", first |-> i, last |-> i]>> \o ParseBlocks(L, i + 1)
  ELSE IF IsBulletItem(L[i]) \/ IsOrderedItem(L[i])
    THEN ListFrom(L, i, ListItemStarts(L, i))
  ELSE IF IsHTMLBlockStart(L[i])
    THEN LET j == LastBeforeBlank(L, i)
         IN <<[kind |-> "HTMLBlock", first |-> i, last |-> j]>> \o ParseBlocks(L, j + 1)
  ELSE ParagraphBefore(L, i, ParagraphEnd(L, i))

\* the Document node's children for a source
GoldmarkParse(source) == ParseBlocks(SourceLines(source), 1)

(***************************************************************************)
(* The inputs the parser model is exact for.  Every source handed to       *)
(* GoldmarkParse in a reachable state satisfies InDomain (ModelDomain).    *)
(***************************************************************************)
RECURSIVE InlineInDomain(_, _)
InlineInDomain(s, i) ==
  IF i > Len(s) THEN TRUE
  ELSE IF s[i] \in {FENCE, "BACKTICK", "[", "]", "!", "\\", "_", "~", "|"} THEN FALSE
  ELSE IF s[i] \in {"&", "<"}
    THEN (i = Len(s) \/ IsSpace(s[i + 1])) /\ InlineInDomain(s, i + 1)
  ELSE IF s[i] = "*"
    THEN /\ IsStrongOpener(s, i)
         /\ LET j == FindStrongCloser(s, i + 3)
            IN /\ \A k \in (i + 2)..(j - 1) : s[k] \notin ({"*", NL, "&"} \cup TagLexemes)
               /\ InlineInDomain(s, j + 2)
  ELSE InlineInDomain(s, i + 1)

\* a line that would open a container or a construct the model leaves out
OpensUnmodelled(line) ==
  LET t == TrimLeft(line, {SP})
  IN /\ Indent(line) <= 3
     /\ t # <<>>
     /\ \/ t[1] \in {">", "=", "|", "[", "~", "+", "-", "<"}
        \/ t[1] \in Digits
        \/ t[1] = "*" /\ (Len(t) = 1 \/ t[2] \in {SP, TAB})

RECURSIVE ItemInDomain(_, _)
\* the lines j+1..e nested in the item that starts at line i are the items
\* of tight lists, each in the domain, and the line after them does not go
\* on with the paragraph of the last of them
NestedInDomain(L, i, j, e) ==
  /\ \A m \in (j + 1)..e :
       /\ (IsBulletItem(StripIndent(L[m], ItemOffset(L[i])))
             \/ IsOrderedItem(StripIndent(L[m], ItemOffset(L[i]))))
       /\ ItemInDomain(NestedLines(L, j, e, ItemOffset(L[i])), m - j)
  /\ (e > j) => (e + 1 > Len(L) \/ IsBlankLine(L[e + 1]) \/ InterruptsParagraph(L[e + 1]))

\* the list item that starts at line i uses nothing the model leaves out
ItemInDomain(L, i) ==
  /\ ItemOffset(L[i]) = Indent(L[i]) + MarkerWidth(L[i]) + 1
  /\ ItemText(L[i]) # <<>>
  /\ ~OpensUnmodelled(ItemText(L[i]))
  /\ ~InterruptsParagraph(ItemText(L[i]))
  /\ \A m \in (i + 1)..ParagraphEnd(L, i) : ~OpensUnmodelled(TrimLeft(L[m], {SP}))
  /\ InlineInDomain(ItemParagraph(L, i), 1)
  /\ NestedInDomain(L, i, ParagraphEnd(L, i), ItemEnd(L, i))
  \* the line after the item is not a block of the item itself
  /\ \E nx \in {SkipBlank(L, ItemEnd(L, i) + 1)} :
       nx > Len(L) \/ Indent(L[nx]) < ItemOffset(L[i])

NodeInDomain(L, n) ==
  CASE n.kind = "Paragraph" ->
         /\ \A k \in n.first..n.last : ~OpensUnmodelled(L[k])
         /\ InlineInDomain(ParagraphText(L, n.first, n.last), 1)
    [] n.kind = "Heading" ->
         /\ InlineInDomain(HeadingText(L[n.first]), 1)
         /\ ~HasSuffix(HeadingText(L[n.first]), "#")
    [] n.kind = "List" -> \A k \in 1..Len(n.starts) : ItemInDomain(L, n.starts[k])
    [] OTHER -> TRUE

InDomain(source) ==
  LET L == SourceLines(source)
      nodes == ParseBlocks(L, 1)
  IN /\ \A k \in 1..Len(L) : ~HasPrefix(L[k], TAB) /\ ~Contains(L[k], "\r")
     /\ \A k \in 1..Len(nodes) : NodeInDomain(L, nodes[k])

(***************************************************************************)
(* MarkdownRenderer.renderNode                                             *)
(***************************************************************************)
\* the lines of a code block node joined, the last one without its newline
codeContent(n) ==
  IF n.lines = <<>> THEN <<>>
  ELSE Join(SubSeq(n.lines, 1, Len(n.lines) - 1)
              \o <<TrimRight(n.lines[Len(n.lines)], {NL})>>, NL)

\* string(rune('1' + i)): the character i places after "1" in ASCII
ItemRune(i) ==
  IF i < 9 THEN <<"1", "2", "3", "4", "5", "6", "7", "8", "9">>[i + 1]
  ELSE IF i < 16 THEN <<":", ";", "<", "=", ">", "?", "@">>[i - 8]
  ELSE "rune>@"

RECURSIVE renderNode(_, _)
RECURSIVE renderChildren(_)
RECURSIVE renderListItemContent(_)

\* renderNode(&buf, node, source, depth): what it writes to buf.  hasNext
\* is node.NextSibling() != nil.
renderNode(n, hasNext) ==
  CASE n.kind = "Heading" ->
         <<(CASE n.level = 1 -> SpanXLarge [] n.level = 2 -> SpanLarge [] OTHER -> SpanMedium)>>
           \o renderChildren(n.children) \o <<SpanClose>> \o <<NL, NL>>
    [] n.kind = "Paragraph" ->
         renderChildren(n.children) \o (IF hasNext THEN <<NL, NL>> ELSE <<>>)
    [] n.kind = "Text" ->
         EscapeString(n.value) \o (IF n.softBreak THEN <<NL>> ELSE <<>>)
    [] n.kind = "Emphasis" ->
         IF n.level = 2 THEN <<"<b>">> \o renderChildren(n.children) \o <<"</b>">>
         ELSE <<"<i>">> \o renderChildren(n.children) \o <<"</i>">>
    [] n.kind \in {"FencedCodeBlock", "CodeBlock"} ->
         <<"<tt>">> \o EscapeString(codeContent(n)) \o <<"</tt>">>
    [] n.kind = "TextBlock" -> renderChildren(n.children)
    [] n.kind = "List" ->
         Concat([k \in 1..Len(n.children) |->
                   (IF n.ordered THEN <<SP, SP, ItemRune(k - 1), ".", SP>>
                    ELSE <<SP, SP, BulletDot, SP>>)
                     \o renderListItemContent(n.children[k])
                     \o (IF k < Len(n.children) THEN <<NL>> ELSE <<>>)])
           \o (IF hasNext THEN <<NL, NL>> ELSE <<>>)
    [] n.kind = "ListItem" -> <<>>
    [] n.kind = "ThematicBreak" -> <<NL, RuleGlyphs, NL>>
    [] n.kind = "RawHTML" -> <<>>
    [] n.kind = "HTMLBlock" -> <<>>
    [] OTHER -> <<>>

renderChildren(children) ==
  Concat([k \in 1..Len(children) |-> renderNode(children[k], k < Len(children))])

renderListItemContent(item) ==
  Concat([k \in 1..Len(item.children) |->
            IF item.children[k].kind = "Paragraph"
              THEN renderChildren(item.children[k].children)
            ELSE renderNode(item.children[k], k < Len(item.children))])

\* renderNode on the Document node
renderDocument(doc) == renderChildren(doc)

\* ToPango without the final strings.TrimSpace
ToPangoUntrimmed(markdown) ==
  LET source == normalizeMarkdown(UnescapeString(markdown))
      doc == GoldmarkParse(source)
  IN CollapseNewlines(renderDocument(doc))

\* MarkdownRenderer.ToPango
ToPango(markdown) ==
  LET source == normalizeMarkdown(UnescapeString(markdown))
      doc == GoldmarkParse(source)
  IN CollapseNewlines(TrimSpace(renderDocument(doc)))

(***************************************************************************)
(* MarkdownRenderer.Parse                                                  *)
(***************************************************************************)
TextPart(text) == [Type |-> "text", Content |-> text, Language |-> <<>>]

CodePart(code, lang) == [Type |-> "code", Content |-> code, Language |-> lang]

\* strings.IndexByte(lang, ' '), 0-based, -1 if absent
IndexOfSpace(lang) ==
  IF Contains(lang, SP) THEN (CHOOSE k \in 1..Len(lang) :
                                lang[k] = SP /\ \A j \in 1..(k - 1) : lang[j] # SP) - 1
  ELSE -1

codeLanguage(n) ==
  IF n.kind = "FencedCodeBlock" /\ n.info # <<>>
    THEN IF IndexOfSpace(n.info) > 0 THEN SubSeq(n.info, 1, IndexOfSpace(n.info))
         ELSE n.info
  ELSE <<>>

\* flushBeforeCode with the buffer reset before it is read: the text is lost
flushBeforeCodeLosesText(parts, textBuf) == parts

\* flushBeforeCode without the test for an empty trimmed text
flushBeforeCodeKeepsEmpty(parts, textBuf) ==
  IF Len(textBuf) > 0 THEN Append(parts, TextPart(TrimSpace(textBuf))) ELSE parts

\* "Flush any accumulated text" before a code block
flushBeforeCode(parts, textBuf) ==
  IF Len(textBuf) > 0 /\ TrimSpace(textBuf) # <<>>
    THEN Append(parts, TextPart(TrimSpace(textBuf)))
  ELSE parts

\* flushRemaining without the tests for an empty buffer and an empty text
flushRemainingAlways(parts, textBuf) ==
  Append(parts, TextPart(CollapseNewlines(TrimSpace(textBuf))))

\* "Flush remaining text" after the loop
flushRemaining(parts, textBuf) ==
  IF Len(textBuf) > 0 /\ CollapseNewlines(TrimSpace(textBuf)) # <<>>
    THEN Append(parts, TextPart(CollapseNewlines(TrimSpace(textBuf))))
  ELSE parts

RECURSIVE parseLoop(_, _, _, _)
\* the loop over doc.FirstChild() .. NextSibling()
parseLoop(doc, i, textBuf, parts) ==
  IF i > Len(doc) THEN flushRemaining(parts, textBuf)
  ELSE IF doc[i].kind \in {"FencedCodeBlock", "CodeBlock"}
    THEN parseLoop(doc, i + 1, <<>>,
                   Append(flushBeforeCode(parts, textBuf),
                          CodePart(codeContent(doc[i]), codeLanguage(doc[i]))))
  ELSE parseLoop(doc, i + 1, textBuf \o renderNode(doc[i], i < Len(doc)), parts)

Parse(markdown) ==
  LET source == normalizeMarkdown(UnescapeString(markdown))
  IN parseLoop(GoldmarkParse(source), 1, <<>>, <<>>)

(***************************************************************************)
(* MessageBubble: the contentBox children are widgets with an identity     *)
(* (id); a nil pointer is 0.  A bubble value is the record of the fields   *)
(* of the struct plus the identities free for new widgets.                 *)
(***************************************************************************)
VARIABLES
  content,            \* mb.content
  children,           \* the children of mb.contentBox, first to last
  textLabel,          \* mb.textLabel: id of the cached label, 0 for nil
  thinkingIndicator,  \* mb.thinkingIndicator: id of the indicator, 0 for nil
  isThinking,         \* mb.isThinking
  call,               \* the last call on the bubble and the branch it took
  fenceFree,          \* history: the bubble was made and then only given contents by
                      \* SetContent, none of them holding the fence marker
  md,                 \* the argument of MarkdownRenderer.Parse
  parts,              \* what Parse returned
  normalized,         \* what normalizeMarkdown returned
  pango,              \* what ToPango returned
  pc,                 \* "idle" | "input" | "parsed" | "normalized" | "renormalized" | "rendered"
                      \* | "highlighted"
  lexerTokens,        \* Highlight: the tokens the lexer yields for the code
  tokeniseFails,      \* Highlight: lexer.Tokenise returns an error
  styleTable,         \* Highlight: sh.style, the entry of every token type
  highlighted,        \* what Highlight returned
  respStatus,         \* the status code of the server's answer to POST /api/chat
  respLines,          \* the lines of the body of that answer
  ctxDone,            \* the context of the stream is cancelled
  chatPc,             \* where StreamHandler.Chat is: "idle" | "do" | "scan" | "line"
                      \* | "after" | "returned" | "finalizing"
  lineNo,             \* the number of lines scanner.Scan has handed out
  scanErr,            \* scanner.Err() is not nil
  chatErr,            \* the error Chat returned, "running" before it returns
  response,           \* the strings.Builder of the goroutine of startStreaming
  currentChat,        \* cv.currentChat: the id of the chat, 0 for nil
  currentBubble,      \* cv.currentBubble: the id of the bubble, 0 for nil
  streamCancel,       \* cv.streamCancel is not nil
  isStreaming,        \* cv.isStreaming
  idleQueue,          \* the callbacks given to glib.IdleAdd that did not run yet
  bubbleTexts,        \* the content of every bubble the view made, by bubble id
  dbChats,            \* the ids of the rows of the table chats
  dbMessages,         \* the rows of the table messages
  lastChatId,         \* the id of the chat made last
  reported,           \* the errors handed to cv.onError, first to last
  panicked,           \* an idle callback dereferenced a nil bubble
  streamChat,         \* history: cv.currentChat when startStreaming was called
  streamBubble,       \* history: the bubble startStreaming made
  finalized,          \* history: the number of finalisation callbacks that ran
  streams,            \* history: the number of calls of startStreaming
  chunker,            \* the Chunker: its chunkSize and its overlap
  chunkText,          \* Chunk: text, trimmed once the call has begun
  chunkStart,         \* Chunk: start
  chunks,             \* Chunk: chunks
  chunkPc,            \* where Chunk is: "idle" | "input" | "loop" | "returned"
  iterations          \* history: the number of iterations of the loop of Chunk

bubbleVars == <<content, children, textLabel, thinkingIndicator, isThinking, call, fenceFree>>
parseVars == <<md, parts, pc>>
textVars == <<normalized, pango>>
highlightVars == <<lexerTokens, tokeniseFails, styleTable, highlighted>>
chatVars == <<respStatus, respLines, ctxDone, chatPc, lineNo, scanErr, chatErr, response>>
viewVars == <<currentChat, currentBubble, streamCancel, isStreaming, idleQueue, bubbleTexts,
              dbChats, dbMessages, lastChatId, reported, panicked, streamChat,
              streamBubble, finalized, streams>>
chunkVars == <<chunker, chunkText, chunkStart, chunks, chunkPc, iterations>>
\* the variables of the components other than the bubble and the renderer
otherVars == <<highlightVars, chatVars, viewVars, chunkVars>>
vars == <<content, children, textLabel, thinkingIndicator, isThinking, call,
          fenceFree, md, parts, normalized, pango, pc, otherVars>>

\* no bubble was given a content and no renderer function was called
RenderersIdle ==
  /\ content = <<>> /\ children = <<>> /\ textLabel = 0 /\ thinkingIndicator = 0
  /\ isThinking = FALSE
  /\ call = [op |-> "NewMessageBubble", path |-> "none", wasThinking |-> FALSE,
             hadLabel |-> FALSE]
  /\ fenceFree = TRUE
  /\ md = <<>> /\ parts = <<>> /\ normalized = <<>> /\ pango = <<>>

\* Highlight was not called
HighlightIdle ==
  /\ lexerTokens = <<>> /\ tokeniseFails = FALSE /\ styleTable = <<>> /\ highlighted = <<>>

\* no chat view was made, no request was sent
StreamIdle ==
  /\ respStatus = 200 /\ respLines = <<>> /\ ctxDone = FALSE /\ chatPc = "idle"
  /\ lineNo = 0 /\ scanErr = FALSE /\ chatErr = "running" /\ response = <<>>
  /\ currentChat = 0 /\ currentBubble = 0 /\ streamCancel = FALSE
  /\ isStreaming = FALSE /\ idleQueue = <<>> /\ bubbleTexts = <<>> /\ dbChats = {}
  /\ dbMessages = {} /\ lastChatId = 0 /\ reported = <<>> /\ panicked = FALSE
  /\ streamChat = 0 /\ streamBubble = 0 /\ finalized = 0 /\ streams = 0

\* no chunker was made
ChunkIdle ==
  /\ chunker = [chunkSize |-> 1, overlap |-> 0] /\ chunkText = <<>> /\ chunkStart = 0
  /\ chunks = <<>> /\ chunkPc = "idle" /\ iterations = 0

\* the components other than the bubble and the renderer are not in use
OthersIdle == HighlightIdle /\ StreamIdle /\ ChunkIdle

\* Bounds of the model
MaxLines == 3
MaxBubbleLines == 2
MaxItems == 12

\* the lines documents are made of
LineBlank == <<>>
LineText == <<"a">>
LineSentence == <<"a", ".">>
LineFence == <<FENCE>>
LineFenceGo == <<FENCE, "g", "o">>
LineIndentedBullet == <<SP, SP, SP, SP, BulletDot, SP, "a">>
LineHeading == <<"#", SP, "T">>
LineRule == <<"*", "*", "*">>
LineTag == <<"<b>">>
LineStrong == <<"*", "*", "a", "*", "*">>
LineAmp == <<"a", SP, "&", SP, "a">>
LineTags == <<"<b>", "</b>">>
LineFenceGoTab == <<FENCE, "g", "o", TAB, "x">>

ParseVocab ==
  {LineBlank, LineText, LineSentence, LineFence, LineFenceGo, LineIndentedBullet,
   LineHeading, LineRule, LineTag, LineStrong, LineAmp, LineTags, LineFenceGoTab}

BubbleVocab == {LineBlank, LineFence, LineStrong, LineIndentedBullet}

\* every document of at most n lines of vocab, the lines joined by newlines
Documents(vocab, n) ==
  {Join(ls, NL) : ls \in UNION {[1..k -> vocab] : k \in 0..n}}

ParseInputs == Documents(ParseVocab, MaxLines)

\* the contents of the streaming scenario: "H", "He", "Hello"
StreamContents == {<<"H">>, <<"H", "e">>, <<"H", "e", "l", "l", "o">>}

BubbleContents == Documents(BubbleVocab, MaxBubbleLines) \cup StreamContents

\* the texts AppendContent is called with: a further line, or more letters
AppendTexts ==
  {<<NL>> \o l : l \in BubbleVocab} \cup {<<"e">>, <<"l", "l", "o">>, <<".">>}

\* A widget is known by its identity, a number from 1 on (0 is nil).  A
\* widget made by gtk.New... is none of the widgets the bubble refers to when
\* the handler starts: it takes the least identity that is not in use.
IdSpace == 1..(2 * MaxBubbleLines + 2)

RECURSIVE Ascending(_)
Ascending(S) ==
  IF S = {} THEN <<>>
  ELSE LET m == CHOOSE x \in S : \A y \in S : x <= y
       IN <<m>> \o Ascending(S \ {m})

FreeIds(used) == Ascending(IdSpace \ used)

\* containsCodeBlock
containsCodeBlock(c) == Contains(c, FENCE)

Label(id, markup) == [id |-> id, kind |-> "label", markup |-> markup]

\* NewCodeBlock(part.Content, part.Language)
NewCodeBlock(id, code, language) ==
  [id |-> id, kind |-> "code", code |-> code, language |-> language]

\* NewThinkingIndicator()
NewThinkingIndicator(id) == [id |-> id, kind |-> "thinking"]

\* MessageBubble.createTextLabel: a new label showing ToPango(text)
createTextLabel(id, text) == Label(id, ToPango(text))

\* renderContent without the loop that removes the children
keepChildren(mb) == mb

\* the loop of renderContent that removes every child of the content box
clearChildren(mb) == [mb EXCEPT !.children = <<>>]

\* the loop over parts without the "code" case: every part becomes a label
partWidgetAlwaysLabel(id, part) == createTextLabel(id, part.Content)

\* the widget built for one part in the loop over parts
partWidget(id, part) ==
  IF part.Type = "code" THEN NewCodeBlock(id, part.Content, part.Language)
  ELSE createTextLabel(id, part.Content)

\* MessageBubble.renderContent
renderContent(mb) ==
  LET cleared == [clearChildren(mb) EXCEPT !.textLabel = 0]
      ps == Parse(mb.content)
  IN IF Len(ps) = 0
       THEN [cleared EXCEPT !.children = <<createTextLabel(mb.free[1], mb.content)>> \o @,
                            !.textLabel = mb.free[1],
                            !.free = Tail(@)]
     ELSE IF Len(ps) = 1 /\ ps[1].Type = "text"
       THEN [cleared EXCEPT !.children = <<createTextLabel(mb.free[1], ps[1].Content)>> \o @,
                            !.textLabel = mb.free[1],
                            !.free = Tail(@)]
     ELSE [cleared EXCEPT !.children = @ \o [k \in 1..Len(ps) |->
                                               partWidget(mb.free[k], ps[k])],
                          !.free = SubSeq(@, Len(ps) + 1, Len(@))]

RemoveChild(cs, id) == SelectSeq(cs, LAMBDA w : w.id # id)

\* MessageBubble.SetThinking
SetThinking(mb, thinking) ==
  IF mb.isThinking = thinking THEN mb
  ELSE IF thinking
    THEN [mb EXCEPT !.isThinking = TRUE,
                    !.thinkingIndicator = mb.free[1],
                    !.children = Append(@, NewThinkingIndicator(mb.free[1])),
                    !.free = Tail(@)]
  ELSE IF mb.thinkingIndicator # 0
    THEN [mb EXCEPT !.isThinking = FALSE,
                    !.children = RemoveChild(@, mb.thinkingIndicator),
                    !.thinkingIndicator = 0]
  ELSE [mb EXCEPT !.isThinking = FALSE]

\* the condition of the "Optimization" branch without the test for a cached label
takesCheapPathWithoutLabel(mb, oldContent, newContent) ==
  ~containsCodeBlock(newContent) /\ ~containsCodeBlock(oldContent)

\* the condition of the "Optimization" branch of SetContent
takesCheapPath(mb, oldContent, newContent) ==
  mb.textLabel # 0 /\ ~containsCodeBlock(newContent) /\ ~containsCodeBlock(oldContent)

\* textLabel.SetMarkup(markup)
SetMarkup(cs, id, markup) ==
  [k \in 1..Len(cs) |-> IF cs[k].id = id THEN [cs[k] EXCEPT !.markup = markup] ELSE cs[k]]

\* SetContent without the call of SetThinking(false)
keepThinking(mb) == mb

\* the bubble at the start of SetContent, the thinking indicator hidden
hideThinking(mb) == IF mb.isThinking THEN SetThinking(mb, FALSE) ELSE mb

\* MessageBubble.SetContent
SetContent(mb, newContent) ==
  LET shown == hideThinking(mb)
      oldContent == shown.content
      stored == [shown EXCEPT !.content = newContent]
  IN IF takesCheapPath(stored, oldContent, newContent)
       THEN [stored EXCEPT !.children = SetMarkup(@, stored.textLabel, ToPango(newContent))]
     ELSE renderContent(stored)

\* MessageBubble.AppendContent
AppendContent(mb, text) == renderContent([mb EXCEPT !.content = @ \o text])

\* NewMessageBubble(role, content) with setupUI
NewMessageBubble(c) ==
  LET mb == [content |-> c, children |-> <<>>, textLabel |-> 0, thinkingIndicator |-> 0,
             isThinking |-> FALSE, free |-> FreeIds({})]
  IN IF c # <<>> THEN renderContent(mb) ELSE mb

\* the widgets the bubble of the current state refers to
LiveIds ==
  ({children[k].id : k \in 1..Len(children)} \cup {textLabel, thinkingIndicator}) \ {0}

\* the bubble of the current state
Bubble ==
  [content |-> content, children |-> children, textLabel |-> textLabel,
   thinkingIndicator |-> thinkingIndicator, isThinking |-> isThinking,
   free |-> FreeIds(LiveIds)]

Becomes(mb) ==
  /\ content' = mb.content
  /\ children' = mb.children
  /\ textLabel' = mb.textLabel
  /\ thinkingIndicator' = mb.thinkingIndicator
  /\ isThinking' = mb.isThinking

Starts(mb) ==
  /\ content = mb.content
  /\ children = mb.children
  /\ textLabel = mb.textLabel
  /\ thinkingIndicator = mb.thinkingIndicator
  /\ isThinking = mb.isThinking

Init ==
  /\ \E c \in BubbleContents :
       /\ Starts(NewMessageBubble(c))
       /\ fenceFree = ~containsCodeBlock(c)
  /\ call = [op |-> "NewMessageBubble", path |-> IF content # <<>> THEN "full" ELSE "none",
             wasThinking |-> FALSE, hadLabel |-> FALSE]
  /\ md = <<>> /\ parts = <<>> /\ pc = "idle"
  /\ normalized = <<>> /\ pango = <<>>
  /\ OthersIdle

DoSetContent ==
  \E c \in BubbleContents :
    LET after == SetContent(Bubble, c)
    IN /\ Becomes(after)
       /\ call' = [op |-> "SetContent",
                   path |-> IF takesCheapPath(Bubble, content, c) THEN "cheap" ELSE "full",
                   wasThinking |-> isThinking, hadLabel |-> textLabel # 0]
       /\ fenceFree' = (fenceFree /\ ~containsCodeBlock(c))
       /\ UNCHANGED parseVars
       /\ UNCHANGED textVars
       /\ UNCHANGED otherVars

DoAppendContent ==
  \E t \in AppendTexts :
    LET after == AppendContent(Bubble, t)
    IN /\ content \o t \in BubbleContents
       /\ Becomes(after)
       /\ call' = [op |-> "AppendContent", path |-> "full",
                   wasThinking |-> isThinking, hadLabel |-> textLabel # 0]
       /\ fenceFree' = FALSE
       /\ UNCHANGED parseVars
       /\ UNCHANGED textVars
       /\ UNCHANGED otherVars

DoSetThinking ==
  \E thinking \in BOOLEAN :
    LET after == SetThinking(Bubble, thinking)
    IN /\ Becomes(after)
       /\ call' = [op |-> "SetThinking", path |-> "none",
                   wasThinking |-> isThinking, hadLabel |-> textLabel # 0]
       /\ fenceFree' = FALSE
       /\ UNCHANGED parseVars
       /\ UNCHANGED textVars
       /\ UNCHANGED otherVars

Next == DoSetContent \/ DoAppendContent \/ DoSetThinking

Spec == Init /\ [][Next]_vars

(***************************************************************************)
(* MarkdownRenderer.Parse as a function of its input                       *)
(***************************************************************************)
InitParse ==
  /\ Starts(NewMessageBubble(<<>>))
  /\ call = [op |-> "NewMessageBubble", path |-> "none", wasThinking |-> FALSE,
             hadLabel |-> FALSE]
  /\ fenceFree = TRUE
  /\ md \in ParseInputs
  /\ parts = <<>>
  /\ normalized = <<>> /\ pango = <<>>
  /\ OthersIdle
  /\ pc = "input"

DoParse ==
  /\ pc = "input"
  /\ parts' = Parse(md)
  /\ pc' = "parsed"
  /\ UNCHANGED md
  /\ UNCHANGED textVars
  /\ UNCHANGED bubbleVars
  /\ UNCHANGED otherVars

NextParse == DoParse

SpecParse == InitParse /\ [][NextParse]_vars

(***************************************************************************)
(* Every source the parser is given lies in the domain of the parser model *)
(***************************************************************************)
SourceOf(markdown) == normalizeMarkdown(UnescapeString(markdown))

TextPartsInDomain(markdown) ==
  LET ps == Parse(markdown)
  IN \A k \in 1..Len(ps) : ps[k].Type = "text" => InDomain(SourceOf(ps[k].Content))

ModelDomain ==
  /\ InDomain(SourceOf(content)) /\ TextPartsInDomain(content)
  /\ InDomain(SourceOf(md)) /\ TextPartsInDomain(md)
  /\ InDomain(UnescapeString(md))

(***************************************************************************)
(* Properties of MessageBubble, checked under Spec                         *)
(***************************************************************************)
ChildIds(cs) == {cs[k].id : k \in 1..Len(cs)}

\* the markup of the label id among the widgets cs
LabelMarkup(cs, id) ==
  LET k == CHOOSE k \in 1..Len(cs) : cs[k].id = id IN cs[k].markup

\* the bubble a full rebuild of the current content gives
Rebuilt == renderContent(Bubble)

\* C1: after a SetContent that ends a history of SetContent calls without the
\* fence marker, the cached label shows the markup a full rebuild of the
\* same content shows in its cached label.
C1_CheapMarkupIsRebuildMarkup ==
  (call.op = "SetContent" /\ fenceFree /\ textLabel # 0 /\ Rebuilt.textLabel # 0) =>
    LabelMarkup(children, textLabel) = LabelMarkup(Rebuilt.children, Rebuilt.textLabel)

\* a step that patches the markup of the cached label and, the thinking
\* indicator apart, creates and removes no child
CheapStep ==
  /\ textLabel # 0 /\ textLabel' = textLabel
  /\ ChildIds(children') = ChildIds(children) \ {thinkingIndicator}
  /\ LabelMarkup(children', textLabel) = ToPango(content')

\* the widgets cs show the segmentation of the content c: one widget per
\* segment in order, or one label of the content if there is no segment
ShowsSegmentation(cs, c) ==
  LET ps == Parse(c)
  IN IF ps = <<>>
       THEN Len(cs) = 1 /\ cs[1].kind = "label" /\ cs[1].markup = ToPango(c)
     ELSE /\ Len(cs) = Len(ps)
          /\ \A k \in 1..Len(ps) :
               IF ps[k].Type = "code"
                 THEN /\ cs[k].kind = "code"
                      /\ cs[k].code = ps[k].Content
                      /\ cs[k].language = ps[k].Language
               ELSE cs[k].kind = "label" /\ cs[k].markup = ToPango(ps[k].Content)

\* a step after which every child is a new widget and the children show the
\* segmentation of the new content
RebuildStep ==
  /\ ChildIds(children') \cap ChildIds(children) = {}
  /\ ShowsSegmentation(children', content')

\* C2, as stated: every SetContent whose old and new content are both
\* without the fence marker takes the cheap path.
C2_CheapWheneverNoFence ==
  [][(call'.op = "SetContent" /\ ~containsCodeBlock(content) /\ ~containsCodeBlock(content'))
       => CheapStep]_vars

\* C2, amended: a SetContent whose old and new content are both without the
\* fence marker takes the cheap path if the bubble has a cached label, and
\* rebuilds if it has none (as on the first content of a streaming bubble).
C2_CheapWhenLabelCached ==
  [][(call'.op = "SetContent" /\ ~containsCodeBlock(content) /\ ~containsCodeBlock(content'))
       => IF textLabel # 0 THEN CheapStep ELSE RebuildStep]_vars

\* C2 witness: the streamed content "Hello" set by the cheap path
C2_Witness ==
  /\ call.op = "SetContent" /\ call.path = "cheap"
  /\ content = <<"H", "e", "l", "l", "o">>
  /\ textLabel # 0 /\ LabelMarkup(children, textLabel) = content

\* C3: a SetContent whose old or new content holds the fence marker leaves no
\* child of before the call and builds the children from the segmentation of
\* the new content.
C3_FenceForcesRebuild ==
  [][(call'.op = "SetContent" /\ (containsCodeBlock(content) \/ containsCodeBlock(content')))
       => RebuildStep]_vars

\* C3 witness: a bubble that had a label was given a content with a fence
C3_Witness ==
  /\ call.op = "SetContent" /\ call.path = "full" /\ call.hadLabel
  /\ containsCodeBlock(content)
  /\ Len(children) = 2

\* C4: AppendContent(text) leaves the bubble as SetContent(content + text)
\* would: content, thinking state, children and cached label.
C4_AppendIsSetContent ==
  [][call'.op = "AppendContent" =>
       LET set == SetContent(Bubble, content')
       IN /\ content' = set.content
          /\ isThinking' = set.isThinking
          /\ thinkingIndicator' = set.thinkingIndicator
          /\ children' = set.children
          /\ textLabel' = set.textLabel]_vars

\* C5: after every SetContent the bubble is not thinking and no thinking
\* indicator is among the children.
C5_SetContentHidesThinking ==
  call.op = "SetContent" =>
    /\ ~isThinking
    /\ thinkingIndicator = 0
    /\ \A k \in 1..Len(children) : children[k].kind # "thinking"

\* C5 witness: SetContent was called on a thinking bubble
C5_Witness == call.op = "SetContent" /\ call.wasThinking /\ children # <<>>

\* the cached label is set exactly when the segmentation is one Text segment
CachedIffSingleText(ps) == textLabel # 0 <=> (Len(ps) = 1 /\ ps[1].Type = "text")

\* C6, as stated: after creation with content and after every full rebuild
\* the children are one widget per segment, in order, and the cached label
\* is set exactly when the segmentation is a single Text segment.
C6_OneChildPerSegment ==
  call.path = "full" =>
    LET ps == Parse(content)
    IN /\ Len(children) = Len(ps)
       /\ ShowsSegmentation(children, content)
       /\ CachedIffSingleText(ps)

\* C6, amended: the same, except that a content without any segment is shown
\* by one label of the content itself, which is cached as well.
C6_OneChildPerSegmentOrOneLabel ==
  call.path = "full" =>
    LET ps == Parse(content)
    IN /\ ShowsSegmentation(children, content)
       /\ IF ps = <<>> THEN textLabel = children[1].id
          ELSE CachedIffSingleText(ps) /\ (textLabel # 0 => textLabel = children[1].id)

\* C6 witness: a rebuild of a content of two segments, a text and a code block
C6_Witness ==
  /\ call.path = "full"
  /\ Len(Parse(content)) = 2
  /\ Parse(content)[1].Type = "text" /\ Parse(content)[2].Type = "code"

(***************************************************************************)
(* Properties of MarkdownRenderer.Parse, checked under SpecParse           *)
(***************************************************************************)
IsCodeNode(n) == n.kind \in {"FencedCodeBlock", "CodeBlock"}

\* the document Parse walks for the input md
ParsedDocument == GoldmarkParse(SourceOf(md))

\* the positions of the top-level code blocks of doc, in source order
RECURSIVE CodeIndexes(_, _)
CodeIndexes(doc, i) ==
  IF i > Len(doc) THEN <<>>
  ELSE (IF IsCodeNode(doc[i]) THEN <<i>> ELSE <<>>) \o CodeIndexes(doc, i + 1)

CodeSegments(ps) == SelectSeq(ps, LAMBDA part : part.Type = "code")

IsWhitespaceOnly(str) == TrimSpace(str) = <<>>

HasTripleNewline(str) == \E k \in 1..(Len(str) - 2) : SubSeq(str, k, k + 2) = <<NL, NL, NL>>

\* the lines first..last of the code block n as they stand in the lines L0,
\* without the indentation that belongs to the block, joined as Parse joins
VerbatimCode(n, L0) ==
  LET strip == IF n.kind = "CodeBlock" THEN 4 ELSE Indent(L0[n.first - 1])
  IN codeContent([lines |-> [k \in 1..(n.last - n.first + 1) |->
                                StripIndent(L0[n.first + k - 1], strip)]])

\* C7: the content of every Code segment Parse returns is the verbatim text
\* of the lines of its code block in the entity-decoded input: the
\* normalization pass rewrites no line that ends up in a Code segment.
C7_CodeSegmentsVerbatim ==
  pc = "parsed" =>
    LET ps == CodeSegments(parts)
        doc == ParsedDocument
        at == CodeIndexes(doc, 1)
        L0 == SourceLines(UnescapeString(md))
    IN /\ Len(ps) = Len(at)
       /\ \A k \in 1..Len(ps) : ps[k].Content = VerbatimCode(doc[at[k]], L0)

\* C8, as stated: an input whose document has no top-level code block gives
\* exactly one Text segment, and no segment only if the input is empty or
\* whitespace-only.
C8_OneTextOrBlankInput ==
  (pc = "parsed" /\ CodeIndexes(ParsedDocument, 1) = <<>>) =>
    \/ Len(parts) = 1 /\ parts[1].Type = "text"
    \/ Len(parts) = 0 /\ IsWhitespaceOnly(md)

\* C8, amended: an input whose document has no top-level code block gives at
\* most one segment, a Text segment holding the trimmed rendering of the
\* document with its newline runs collapsed, and no segment exactly when
\* that rendering is empty.
C8_OneTextUnlessRendersEmpty ==
  (pc = "parsed" /\ CodeIndexes(ParsedDocument, 1) = <<>>) =>
    LET shown == CollapseNewlines(TrimSpace(renderDocument(ParsedDocument)))
    IN IF shown = <<>> THEN parts = <<>>
       ELSE Len(parts) = 1 /\ parts[1].Type = "text" /\ parts[1].Content = shown

\* C8 witness: an input that is not blank, has no code block and gives no segment
C8_Witness ==
  /\ pc = "parsed"
  /\ CodeIndexes(ParsedDocument, 1) = <<>>
  /\ ~IsWhitespaceOnly(md)
  /\ parts = <<>>

\* C9: no Text segment Parse returns holds three consecutive newlines.
C9_NoTripleNewline ==
  pc = "parsed" =>
    \A k \in 1..Len(parts) : parts[k].Type = "text" => ~HasTripleNewline(parts[k].Content)

\* the rendering of the blocks a..b of doc, as renderNode writes them
BlocksRendered(doc, a, b) ==
  Concat([k \in 1..(b - a + 1) |-> renderNode(doc[a + k - 1], a + k - 1 < Len(doc))])

\* the segments expected for doc: for every stretch of blocks
\* between neighbouring code blocks the text it renders to, if any, and
\* after it the code block that ends the stretch
SegmentsBetweenCode(doc) ==
  LET at == CodeIndexes(doc, 1)
      n == Len(at)
      from(j) == IF j = 0 THEN 1 ELSE at[j] + 1
      upto(j) == IF j = n THEN Len(doc) ELSE at[j + 1] - 1
      shown(j) == CollapseNewlines(TrimSpace(BlocksRendered(doc, from(j), upto(j))))
  IN Concat([j1 \in 1..(n + 1) |->
               (IF shown(j1 - 1) # <<>> THEN <<TextPart(shown(j1 - 1))>> ELSE <<>>)
                 \o (IF j1 - 1 < n
                       THEN <<CodePart(codeContent(doc[at[j1]]), codeLanguage(doc[at[j1]]))>>
                     ELSE <<>>)])

\* a segment, its newline runs collapsed if it is a Text segment
Collapsed(part) ==
  IF part.Type = "text" THEN [part EXCEPT !.Content = CollapseNewlines(@)] ELSE part

\* C10: Parse never returns two adjacent Text segments; its Code segments
\* are the top-level code blocks of the document, one each, in source order;
\* each Text segment holds the rendering (up to collapsed newline runs) of
\* the blocks between the neighbouring code blocks.
C10_SplitsOnlyAtCodeBlocks ==
  pc = "parsed" =>
    /\ \A k \in 1..(Len(parts) - 1) : ~(parts[k].Type = "text" /\ parts[k + 1].Type = "text")
    /\ [k \in 1..Len(parts) |-> Collapsed(parts[k])] = SegmentsBetweenCode(ParsedDocument)

\* C10 witness: text, then a code block, then text again
C10_Witness ==
  /\ pc = "parsed"
  /\ Len(parts) = 3
  /\ parts[1].Type = "text" /\ parts[2].Type = "code" /\ parts[3].Type = "text"

\* the rendering of the blocks before the first top-level code block of doc
BeforeFirstCode(doc) ==
  LET at == CodeIndexes(doc, 1)
  IN IF at = <<>> THEN <<>> ELSE BlocksRendered(doc, 1, at[1] - 1)

\* C11: no segment Parse returns is a Text segment whose markup is empty or
\* whitespace-only.
C11_NoEmptyTextSegment ==
  pc = "parsed" =>
    \A k \in 1..Len(parts) : parts[k].Type = "text" => ~IsWhitespaceOnly(parts[k].Content)

\* C11 witness: the blocks before the first code block wrote something to
\* the text buffer, all of it whitespace, and Parse returned no Text segment
\* for it
C11_Witness ==
  /\ pc = "parsed"
  /\ BeforeFirstCode(ParsedDocument) # <<>>
  /\ IsWhitespaceOnly(BeforeFirstCode(ParsedDocument))
  /\ parts # <<>>
  /\ parts[1].Type = "code"

\* the first whitespace-delimited word of s, empty if s has none
FirstWord(s) ==
  LET t == TrimSpace(s)
      n == CHOOSE k \in 0..Len(t) :
             /\ \A j \in 1..k : ~IsSpace(t[j])
             /\ (k = Len(t) \/ IsSpace(t[k + 1]))
  IN SubSeq(t, 1, n)

\* C12: the language of the Code segment of a top-level fenced code block is
\* the first whitespace-delimited word of the fence's info string, whatever
\* whitespace character follows the word, and empty when the fence has no
\* info string.
C12_LanguageIsFirstWord ==
  pc = "parsed" =>
    LET ps == CodeSegments(parts)
        doc == ParsedDocument
        at == CodeIndexes(doc, 1)
        L == SourceLines(SourceOf(md))
    IN /\ Len(ps) = Len(at)
       /\ \A k \in 1..Len(ps) :
            doc[at[k]].kind = "FencedCodeBlock" =>
              ps[k].Language = FirstWord(FenceInfo(L[doc[at[k]].first - 1]))

(***************************************************************************)
(* normalizeMarkdown as a function of its input, applied once and then     *)
(* again to its own result                                                 *)
(***************************************************************************)
LineBullet == <<BulletDot, SP, "a">>
LineBulletWide == <<SP, SP, BulletSquare, SP, SP, "a">>
LineBulletPair == <<BulletDot, BulletTriangle, "a">>
LineOrdered == <<"1", ".", SP, "a">>
LineDash == <<"-", SP, "a">>
LineFenceInside == <<"a", FENCE>>

NormalizeVocab ==
  {LineBlank, LineText, LineSentence, LineFence, LineHeading, LineBullet,
   LineBulletWide, LineBulletPair, LineOrdered, LineDash, LineFenceInside,
   \* a line with spaces around its text, a line of 59 bytes, a line of 60 bytes
   <<SP, "a", SP>>, <<RuleGlyphs, SpanXLarge>>, <<RuleGlyphs, SpanXLarge, "a">>}

NormalizeInputs == Documents(NormalizeVocab, MaxLines)

InitNormalize ==
  /\ Starts(NewMessageBubble(<<>>))
  /\ call = [op |-> "NewMessageBubble", path |-> "none", wasThinking |-> FALSE,
             hadLabel |-> FALSE]
  /\ fenceFree = TRUE
  /\ md \in NormalizeInputs
  /\ parts = <<>>
  /\ normalized = <<>> /\ pango = <<>>
  /\ OthersIdle
  /\ pc = "input"

DoNormalize ==
  /\ pc = "input"
  /\ normalized' = normalizeMarkdown(md)
  /\ pc' = "normalized"
  /\ UNCHANGED <<md, parts, pango>>
  /\ UNCHANGED bubbleVars
  /\ UNCHANGED otherVars

DoNormalizeAgain ==
  /\ pc = "normalized"
  /\ normalized' = normalizeMarkdown(normalized)
  /\ pc' = "renormalized"
  /\ UNCHANGED <<md, parts, pango>>
  /\ UNCHANGED bubbleVars
  /\ UNCHANGED otherVars

NextNormalize == DoNormalize \/ DoNormalizeAgain

SpecNormalize == InitNormalize /\ [][NextNormalize]_vars

(***************************************************************************)
(* Properties of normalizeMarkdown, checked under SpecNormalize            *)
(***************************************************************************)
\* the lines normalizeMarkdown read and the lines it wrote
InputLines == Split(md, NL)

OutputLines == Split(normalized, NL)


\* C13: normalizing twice gives what normalizing once gives.
C13_NormalizeIdempotent ==
  pc = "renormalized" => normalized = normalizeMarkdown(md)

\* C13 witness: the first pass rewrote a bullet line and promoted a heading,
\* and the second pass has run
C13_Witness ==
  /\ pc = "renormalized"
  /\ LET once == Split(normalizeMarkdown(md), NL)
     IN /\ \E i \in 1..Len(InputLines) :
             isBulletLine(TrimSpace(InputLines[i])) /\ once[i] # InputLines[i]
        /\ \E i \in 1..Len(InputLines) :
             once[i] = <<"#", "#", SP>> \o TrimSpace(InputLines[i])

\* a line normalizeMarkdown takes for a fence line
StartsFence(line) == HasPrefix(TrimSpace(line), FENCE)

\* line i is outside code blocks: no fence line, and the fence lines before
\* it pair up
OutsideCode(lines, i) ==
  /\ ~StartsFence(lines[i])
  /\ Cardinality({k \in 1..(i - 1) : StartsFence(lines[k])}) % 2 = 0

\* line i was rewritten to "## " followed by its trimmed text
Promoted(lines, out, i) == out[i] = <<"#", "#", SP>> \o TrimSpace(lines[i])

\* the conditions of the heading rule as C14 lists them
ListedConditions(lines, i) ==
  LET t == TrimSpace(lines[i])
  IN /\ ByteCount(t) > 0 /\ ByteCount(t) < 60
     /\ \A c \in {"-", "*", "#", ">", "|", "["} : ~HasPrefix(t, c)
     /\ ~(t[1] \in Digits /\ \E k \in 2..3 : k <= Len(t) /\ t[k] = ".")
     /\ \A c \in {".", ",", ";", "?", "!", ":"} : ~HasSuffix(t, c)
     /\ (i = 1 \/ TrimSpace(lines[i - 1]) = <<>>)
     /\ i < Len(lines)
     /\ TrimSpace(lines[i + 1]) # <<>>
     /\ ~HasPrefix(TrimSpace(lines[i + 1]), "#")

StartsWithBulletGlyph(line) ==
  TrimSpace(line) # <<>> /\ TrimSpace(line)[1] \in {BulletDot, BulletSquare, BulletTriangle}

\* C14, as stated: outside code blocks a line is rewritten to "## " and its
\* trimmed text if and only if its length, its first and last characters,
\* the line before it and the line after it are as the heading rule asks.
C14_PromotedIffListed ==
  pc = "normalized" =>
    \A i \in 1..Len(InputLines) :
      OutsideCode(InputLines, i) =>
        (Promoted(InputLines, OutputLines, i) <=> ListedConditions(InputLines, i))

\* C14, amended: outside code blocks a line is rewritten to "## " and its
\* trimmed text if and only if the listed conditions hold and, besides, the
\* line does not start with a bullet glyph and holds no fence marker anywhere.
C14_PromotedIffListedAndNoFenceNoBullet ==
  pc = "normalized" =>
    \A i \in 1..Len(InputLines) :
      OutsideCode(InputLines, i) =>
        (Promoted(InputLines, OutputLines, i)
           <=> /\ ListedConditions(InputLines, i)
               /\ ~StartsWithBulletGlyph(InputLines[i])
               /\ ~Contains(TrimSpace(InputLines[i]), FENCE))

\* C14 witness: a line that meets the listed conditions but holds a fence
\* marker is left as it was
C14_Witness ==
  /\ pc = "normalized"
  /\ \E i \in 1..Len(InputLines) :
       /\ OutsideCode(InputLines, i)
       /\ ListedConditions(InputLines, i)
       /\ Contains(TrimSpace(InputLines[i]), FENCE)
       /\ OutputLines[i] = InputLines[i]

\* the leading spaces and tabs of a line
LeadingIndentation(line) == SubSeq(line, 1, LeftCount(line, 1, {SP, TAB}))

\* the trimmed line without its first character, the glyph, and without the
\* one space after the glyph, if there is one
AfterGlyphAndOneSpace(line) ==
  LET afterGlyph == Tail(TrimSpace(line))
  IN IF HasPrefix(afterGlyph, SP) THEN Tail(afterGlyph) ELSE afterGlyph

\* C15: outside code blocks a line whose trimmed form begins with a bullet
\* glyph is rewritten to its leading indentation, "- ", and the rest of the
\* line after the glyph and one following space; further spaces are kept.
C15_BulletKeepsFurtherSpaces ==
  pc = "normalized" =>
    \A i \in 1..Len(InputLines) :
      (OutsideCode(InputLines, i) /\ StartsWithBulletGlyph(InputLines[i])) =>
        OutputLines[i] = LeadingIndentation(InputLines[i]) \o <<"-", SP>>
                           \o AfterGlyphAndOneSpace(InputLines[i])

\* line i lies between an opening fence line and the fence line that closes it
BetweenFences(lines, i) ==
  /\ ~StartsFence(lines[i])
  /\ Cardinality({k \in 1..(i - 1) : StartsFence(lines[k])}) % 2 = 1
  /\ \E k \in (i + 1)..Len(lines) : StartsFence(lines[k])

\* C16: every fence line, and every line between an opening and a closing
\* fence line, is in the result unchanged.
C16_FencedLinesUnchanged ==
  pc = "normalized" =>
    \A i \in 1..Len(InputLines) :
      (StartsFence(InputLines[i]) \/ BetweenFences(InputLines, i)) =>
        OutputLines[i] = InputLines[i]

\* C16 witness: a line between two fence lines starts with a bullet glyph,
\* and normalizeMarkdown has run
C16_Witness ==
  /\ pc = "normalized"
  /\ \E i \in 1..Len(InputLines) :
       BetweenFences(InputLines, i) /\ StartsWithBulletGlyph(InputLines[i])

\* an output line that is an input line rewritten by the bullet rule: its
\* indentation, "- ", and an end piece of its trimmed text
IsBulletRewriteOf(outLine, line) ==
  /\ StartsWithBulletGlyph(line)
  /\ \E k \in 1..(Len(TrimSpace(line)) + 1) :
       outLine = LeadingIndentation(line) \o <<"-", SP>>
                   \o SubSeq(TrimSpace(line), k, Len(TrimSpace(line)))

\* C17: the result has exactly as many lines as the input, and its i-th line
\* is the i-th input line unchanged, bullet-rewritten or heading-prefixed.
C17_LineCountAndOrderKept ==
  pc = "normalized" =>
    /\ Len(OutputLines) = Len(InputLines)
    /\ \A i \in 1..Len(InputLines) :
         \/ OutputLines[i] = InputLines[i]
         \/ IsBulletRewriteOf(OutputLines[i], InputLines[i])
         \/ Promoted(InputLines, OutputLines, i)

\* C17 witness: an input of three lines of which one is rewritten by the
\* bullet rule, one by the heading rule, and one is blank
C17_Witness ==
  /\ pc = "normalized"
  /\ Len(InputLines) = 3
  /\ \E i, j, k \in 1..3 :
       /\ IsBulletRewriteOf(OutputLines[i], InputLines[i])
       /\ OutputLines[j] # InputLines[j] /\ Promoted(InputLines, OutputLines, j)
       /\ TrimSpace(InputLines[k]) = <<>>

(***************************************************************************)
(* MarkdownRenderer.ToPango as a function of its input                     *)
(***************************************************************************)
LineDashAmp == <<"-", SP, "a", SP, "&", SP, "a">>
LineAngles == <<"a", SP, "<", SP, ">", SP, "&">>
LineRaw == <<"a", SP, "<s>">>

RenderVocab ==
  {LineBlank, LineText, LineDash, LineDashAmp, LineOrdered, LineAngles, LineRaw, LineFence,
   LineRule}

\* the document of n lines, each of them line
Repeated(line, n) == Join([k \in 1..n |-> line], NL)

\* a list item indented to the content column of an item written with "-"
LineNestedDash == <<SP, SP, "-", SP, "a">>

\* the documents made of list items, nested or not
NestedInputs == Documents({LineDash, LineNestedDash, LineOrdered}, MaxLines)

RenderInputs ==
  Documents(RenderVocab, MaxLines) \cup {Repeated(LineOrdered, n) : n \in 1..MaxItems}
    \cup NestedInputs

InitToPango ==
  /\ Starts(NewMessageBubble(<<>>))
  /\ call = [op |-> "NewMessageBubble", path |-> "none", wasThinking |-> FALSE,
             hadLabel |-> FALSE]
  /\ fenceFree = TRUE
  /\ md \in RenderInputs
  /\ parts = <<>>
  /\ normalized = <<>> /\ pango = <<>>
  /\ OthersIdle
  /\ pc = "input"

DoToPango ==
  /\ pc = "input"
  /\ pango' = ToPango(md)
  /\ pc' = "rendered"
  /\ UNCHANGED <<md, parts, normalized>>
  /\ UNCHANGED bubbleVars
  /\ UNCHANGED otherVars

NextToPango == DoToPango

SpecToPango == InitToPango /\ [][NextToPango]_vars

\* every source ToPango hands to the parser lies in the domain of the parser model
ToPangoDomain == InDomain(SourceOf(md))

(***************************************************************************)
(* Properties of MarkdownRenderer.ToPango, checked under SpecToPango       *)
(***************************************************************************)
\* the lines ToPango's parser reads for the input md
RenderedLines == SourceLines(SourceOf(md))

\* the input is one list, ordered or not as asked, and each of its lines is
\* one item of the list
IsOneList(ordered) ==
  LET doc == ParsedDocument
  IN /\ Len(doc) = 1
     /\ doc[1].kind = "List"
     /\ doc[1].ordered = ordered
     /\ doc[1].starts = [k \in 1..Len(RenderedLines) |-> k]

DigitChars == <<"0", "1", "2", "3", "4", "5", "6", "7", "8", "9">>

RECURSIVE Decimal(_)
\* the decimal numeral of k
Decimal(k) ==
  IF k < 10 THEN <<DigitChars[k + 1]>>
  ELSE Decimal(k \div 10) \o <<DigitChars[(k % 10) + 1]>>

\* s begins with the sequence p
StartsWith(s, p) == Len(s) >= Len(p) /\ SubSeq(s, 1, Len(p)) = p

\* C18: for an ordered list of n items the k-th line ToPango returns
\* carries the decimal marker "k.", for every k in 1..n.
C18_OrderedMarkersDecimal ==
  (pc = "rendered" /\ IsOneList(TRUE)) =>
    LET out == Split(pango, NL)
    IN /\ Len(out) = Len(RenderedLines)
       /\ \A k \in 1..Len(out) :
            StartsWith(TrimLeft(out[k], {SP}), Decimal(k) \o <<".", SP>>)

\* C19: ToPango's result holds no bare &, < or > (each of them is written as
\* an entity, or is part of a tag the renderer wrote), and nothing of a raw
\* HTML tag of the input.
C19_OutputEscaped ==
  pc = "rendered" =>
    /\ \A k \in 1..Len(pango) : pango[k] \notin {"&", "<", ">"}
    /\ ~Contains(pango, "<s>")

\* the rendering of the text of an item line
ItemContent(line) == renderChildren(ParseInline(ItemText(line), 1, <<>>))

\* one line per item: two spaces, the bullet glyph, a space, the content
BulletLines(L) == [k \in 1..Len(L) |-> <<SP, SP, BulletDot, SP>> \o ItemContent(L[k])]

\* C20, as stated: a document of one unordered list is rendered as one line
\* per item, every line, the first too, being two spaces, the bullet glyph,
\* a space and the item's content, the lines joined by single newlines.
C20_EveryLineIndented ==
  (pc = "rendered" /\ IsOneList(FALSE)) => pango = Join(BulletLines(RenderedLines), NL)

\* C20, amended: a document of one unordered list is rendered as those
\* lines joined by single newlines and then trimmed, so that the first line
\* starts with the bullet glyph.
C20_FirstLineStartsAtGlyph ==
  (pc = "rendered" /\ IsOneList(FALSE)) => pango = TrimSpace(Join(BulletLines(RenderedLines), NL))

\* C20 witness: a list of two items rendered, the first line starting with
\* the glyph and the second with two spaces
C20_Witness ==
  /\ pc = "rendered"
  /\ IsOneList(FALSE)
  /\ Len(RenderedLines) = 2
  /\ pango = <<BulletDot, SP>> \o ItemContent(RenderedLines[1]) \o <<NL>>
               \o <<SP, SP, BulletDot, SP>> \o ItemContent(RenderedLines[2])

\* what renderNode wrote for the document of md, trimmed, before the runs of
\* newlines are shortened
TrimmedRendering == TrimSpace(renderDocument(ParsedDocument))

\* C21: the string ToPango returns holds no run of three or more newlines.
C21_NoTripleNewlineInPango ==
  pc = "rendered" => ~HasTripleNewline(pango)

\* C21 witness: the renderer wrote three newlines in a row between two
\* blocks, and ToPango has returned
C21_Witness ==
  /\ pc = "rendered"
  /\ HasTripleNewline(TrimmedRendering)
  /\ pango # <<>>

\* the Code segments of the segmentation of the bubble's content
CodeSegmentsOfContent == CodeSegments(Parse(content))

\* C27: after a SetContent call, if the segmentation of the bubble's content
\* holds a Code segment, the bubble has no cached text label and every Code
\* segment is shown by a code-block widget among its children.
C27_CodeInCodeWidget ==
  (call.op = "SetContent" /\ CodeSegmentsOfContent # <<>>) =>
    /\ textLabel = 0
    /\ \A k \in 1..Len(CodeSegmentsOfContent) :
         \E j \in 1..Len(children) :
           /\ children[j].kind = "code"
           /\ children[j].code = CodeSegmentsOfContent[k].Content

\* C28: in every state of the bubble IsThinking() is true exactly when a
\* thinking indicator is a child of the content box.
C28_ThinkingIffIndicatorShown ==
  isThinking <=> \E j \in 1..Len(children) : children[j].kind = "thinking"

\* the positions of the item markers in a line of ToPango's result: the
\* bullet glyph, or the period after an item's number (no input of
\* SpecToPango holds either of them in its text)
MarkersOf(line) == {k \in 1..Len(line) : line[k] \in {BulletDot, "."}}

\* C24: in ToPango's result every list item, nested or not, starts on its
\* own line: no line of the result holds two item markers.
C24_OneMarkerPerLine ==
  pc = "rendered" =>
    \A i \in 1..Len(Split(pango, NL)) : Cardinality(MarkersOf(Split(pango, NL)[i])) <= 1

(***************************************************************************)
(* SyntaxHighlighter.Highlight.  The lexer and the style are chroma's: the *)
(* lexer is any sequence of typed tokens, the style any table that gives   *)
(* every token type an entry.                                              *)
(***************************************************************************)
MaxTokens == 3

TokenTypes == {"Keyword", "Name"}

\* the tokens a lexer yields: a type and a text, which may be empty
LexerTokens == [Type : TokenTypes, Value : {<<>>, <<"x">>}]

LexerOutputs == UNION {[1..n -> LexerTokens] : n \in 0..MaxTokens}

\* the entries of a style: the colour ("" if not set), bold and italic
StyleEntries == [Colour : {"", "#ff79c6"}, Bold : BOOLEAN, Italic : BOOLEAN]

StyleTables == [TokenTypes -> StyleEntries]

RECURSIVE MergeRuns(_)
\* adjacent tokens of the same type joined into one
MergeRuns(ts) ==
  IF Len(ts) <= 1 THEN ts
  ELSE IF ts[1].Type = ts[2].Type
    THEN MergeRuns(<<[Type |-> ts[1].Type, Value |-> ts[1].Value \o ts[2].Value]>>
                     \o SubSeq(ts, 3, Len(ts)))
  ELSE <<ts[1]>> \o MergeRuns(Tail(ts))

\* chroma.Coalesce(lexer): empty tokens are dropped, runs of tokens of the
\* same type are joined
Coalesce(ts) == MergeRuns(SelectSeq(ts, LAMBDA t : t.Value # <<>>))

\* the HighlightToken made of a token and the entry of its type
StyledToken(token, entry) ==
  [Text |-> token.Value, Color |-> entry.Colour, Bold |-> entry.Bold,
   Italic |-> entry.Italic]

\* SyntaxHighlighter.Highlight(code, language): ts is what the lexer found
\* for the language yields for the code, fails says that Tokenise returns
\* an error
Highlight(ts, fails, style) ==
  IF fails
    THEN <<[Text |-> Concat([k \in 1..Len(ts) |-> ts[k].Value]), Color |-> "",
            Bold |-> FALSE, Italic |-> FALSE]>>
  ELSE [k \in 1..Len(Coalesce(ts)) |->
          StyledToken(Coalesce(ts)[k], style[Coalesce(ts)[k].Type])]

InitHighlight ==
  /\ RenderersIdle
  /\ StreamIdle
  /\ ChunkIdle
  /\ lexerTokens \in LexerOutputs
  /\ tokeniseFails \in BOOLEAN
  /\ styleTable \in StyleTables
  /\ highlighted = <<>>
  /\ pc = "input"

DoHighlight ==
  /\ pc = "input"
  /\ highlighted' = Highlight(lexerTokens, tokeniseFails, styleTable)
  /\ pc' = "highlighted"
  /\ UNCHANGED <<lexerTokens, tokeniseFails, styleTable>>
  /\ UNCHANGED <<bubbleVars, md, parts, textVars, chatVars, viewVars, chunkVars>>

NextHighlight == DoHighlight

SpecHighlight == InitHighlight /\ [][NextHighlight]_vars

\* two tokens of the same colour, the same bold flag and the same italic flag
SameStyle(a, b) == a.Color = b.Color /\ a.Bold = b.Bold /\ a.Italic = b.Italic

\* C22: the tokens Highlight returns never hold two adjacent tokens of
\* identical style, whatever the lexer yields and whatever the style table.
C22_NoAdjacentSameStyle ==
  pc = "highlighted" =>
    \A k \in 1..(Len(highlighted) - 1) : ~SameStyle(highlighted[k], highlighted[k + 1])

(***************************************************************************)
(* Streaming a response: ChatView.startStreaming, the goroutine it starts  *)
(* (StreamHandler.Chat with the closure that collects the tokens), the     *)
(* callbacks the goroutine hands to glib.IdleAdd, which the UI thread runs *)
(* one at a time in the order they were added, and what the user can do    *)
(* meanwhile on the UI thread: stop the stream, start a new chat, select a *)
(* stored chat, delete a chat.  The view is built with a database and a    *)
(* model that is available.  Left out: cv.messages and the widgets of the  *)
(* view (no step below reads them), the title generation, the reload of    *)
(* the stored messages by SetChat (it adds bubbles, it never assigns       *)
(* cv.currentBubble or cv.currentChat).                                    *)
(***************************************************************************)
MaxChunks == 2

MaxStreams == 1

StatusOK == 200

StatusInternalServerError == 500

\* the ids of the chats stored before the program starts
StoredChats == {1}

\* the text the user sends
UserText == <<"q">>

\* a line of the response body: empty, not JSON, or a chatResponse
BodyLines ==
  {[kind |-> "blank", content |-> <<>>, done |-> FALSE, error |-> FALSE],
   [kind |-> "malformed", content |-> <<>>, done |-> FALSE, error |-> FALSE]}
  \cup [kind : {"chunk"}, content : {<<>>, <<"a">>, <<"b">>}, done : BOOLEAN,
        error : BOOLEAN]

Bodies == UNION {[1..n -> BodyLines] : n \in 0..MaxChunks}

\* Chat returns err: the deferred resp.Body.Close() leaves nothing to model
ChatReturns(err) == chatPc' = "returned" /\ chatErr' = err

\* the closure startStreaming hands to Chat, called with a token
TokenCallback(token) ==
  /\ response' = response \o token
  /\ idleQueue' = Append(idleQueue, [kind |-> "token", content |-> response \o token,
                                     err |-> "nil"])

\* streamClient.Do(httpReq) and the check of the status code
ChatDo ==
  /\ chatPc = "do"
  /\ IF ctxDone THEN ChatReturns("failed to send request: context canceled")
     ELSE IF respStatus # StatusOK THEN ChatReturns("unexpected status code")
     ELSE chatPc' = "scan" /\ chatErr' = chatErr
  /\ UNCHANGED <<respStatus, respLines, ctxDone, lineNo, scanErr, response>>
  /\ UNCHANGED <<highlightVars, viewVars>>
  /\ UNCHANGED <<bubbleVars, md, parts, pc, textVars, chunkVars>>

\* scanner.Scan(): the next line, the end of the body, or a failed read
\* (the transport fails every read once the context is cancelled; lines the
\* scanner holds in its buffer are still handed out)
ChatScan ==
  /\ chatPc = "scan"
  /\ \/ /\ lineNo < Len(respLines)
        /\ lineNo' = lineNo + 1 /\ chatPc' = "line" /\ scanErr' = scanErr
     \/ /\ lineNo = Len(respLines)
        /\ lineNo' = lineNo /\ chatPc' = "after" /\ scanErr' = FALSE
     \/ /\ lineNo' = lineNo /\ chatPc' = "after" /\ scanErr' = TRUE
  /\ UNCHANGED <<respStatus, respLines, ctxDone, chatErr, response>>
  /\ UNCHANGED <<highlightVars, viewVars>>
  /\ UNCHANGED <<bubbleVars, md, parts, pc, textVars, chunkVars>>

\* the body of the loop over the lines
ChatLine ==
  /\ chatPc = "line"
  /\ IF ctxDone
       THEN ChatReturns("context canceled") /\ UNCHANGED <<response, idleQueue>>
     ELSE IF respLines[lineNo].kind # "chunk"
       THEN chatPc' = "scan" /\ UNCHANGED <<chatErr, response, idleQueue>>
     ELSE IF respLines[lineNo].error
       THEN ChatReturns("ollama error") /\ UNCHANGED <<response, idleQueue>>
     ELSE /\ IF respLines[lineNo].content # <<>>
               THEN TokenCallback(respLines[lineNo].content)
             ELSE UNCHANGED <<response, idleQueue>>
          /\ chatPc' = (IF respLines[lineNo].done THEN "after" ELSE "scan")
          /\ chatErr' = chatErr
  /\ UNCHANGED <<respStatus, respLines, ctxDone, lineNo, scanErr>>
  /\ UNCHANGED <<currentChat, currentBubble, streamCancel, isStreaming, bubbleTexts,
                 dbChats, dbMessages, lastChatId, reported, panicked, streamChat,
                 streamBubble, finalized, streams>>
  /\ UNCHANGED highlightVars
  /\ UNCHANGED <<bubbleVars, md, parts, pc, textVars, chunkVars>>

\* Chat that takes the end of the loop for the end of the response, whatever
\* the scanner reports
ChatAfterUnchecked ==
  /\ chatPc = "after"
  /\ ChatReturns("nil")
  /\ UNCHANGED <<respStatus, respLines, ctxDone, lineNo, scanErr, response>>
  /\ UNCHANGED <<highlightVars, viewVars>>
  /\ UNCHANGED <<bubbleVars, md, parts, pc, textVars, chunkVars>>

\* after the loop: scanner.Err()
ChatAfter ==
  /\ chatPc = "after"
  /\ IF ~scanErr THEN ChatReturns("nil")
     ELSE IF ctxDone THEN ChatReturns("context canceled")
     ELSE ChatReturns("error reading response")
  /\ UNCHANGED <<respStatus, respLines, ctxDone, lineNo, scanErr, response>>
  /\ UNCHANGED <<highlightVars, viewVars>>
  /\ UNCHANGED <<bubbleVars, md, parts, pc, textVars, chunkVars>>

\* the goroutine, after Chat returned: glib.IdleAdd of the finalisation
ScheduleFinalize ==
  /\ chatPc = "returned"
  /\ chatPc' = "finalizing"
  /\ idleQueue' = Append(idleQueue, [kind |-> "finalize", content |-> response,
                                     err |-> chatErr])
  /\ UNCHANGED <<respStatus, respLines, ctxDone, lineNo, scanErr, chatErr, response>>
  /\ UNCHANGED <<currentChat, currentBubble, streamCancel, isStreaming, bubbleTexts,
                 dbChats, dbMessages, lastChatId, reported, panicked, streamChat,
                 streamBubble, finalized, streams>>
  /\ UNCHANGED highlightVars
  /\ UNCHANGED <<bubbleVars, md, parts, pc, textVars, chunkVars>>

\* the chat onSendMessage works on: cv.currentChat, made by createNewChat if nil
ChatOfMessage == IF currentChat = 0 THEN lastChatId + 1 ELSE currentChat

\* onSendMessage with a model that is available: the chat is made if there is
\* none, the user's bubble and row are added, startStreaming makes the
\* assistant's bubble and starts the goroutine
SendMessage ==
  /\ ~panicked
  /\ ~isStreaming
  /\ streams < MaxStreams
  /\ currentChat' = ChatOfMessage
  /\ lastChatId' = (IF currentChat = 0 THEN lastChatId + 1 ELSE lastChatId)
  /\ dbChats' = dbChats \cup {ChatOfMessage}
  /\ dbMessages' = dbMessages \cup {[chat |-> ChatOfMessage, role |-> "user",
                                     content |-> UserText]}
  /\ bubbleTexts' = bubbleTexts \o <<UserText, <<>>>>
  /\ currentBubble' = Len(bubbleTexts) + 2
  /\ ctxDone' = FALSE /\ streamCancel' = TRUE /\ isStreaming' = TRUE
  /\ chatPc' = "do" /\ lineNo' = 0 /\ scanErr' = FALSE /\ chatErr' = "running"
  /\ response' = <<>>
  /\ streamChat' = ChatOfMessage /\ streamBubble' = Len(bubbleTexts) + 2
  /\ streams' = streams + 1
  /\ UNCHANGED <<respStatus, respLines, idleQueue, reported, panicked, finalized>>
  /\ UNCHANGED highlightVars
  /\ UNCHANGED <<bubbleVars, md, parts, pc, textVars, chunkVars>>

\* ChatView.StopStreaming
StopStreaming ==
  /\ ~panicked
  /\ ctxDone' = (IF streamCancel THEN TRUE ELSE ctxDone)
  /\ UNCHANGED <<respStatus, respLines, chatPc, lineNo, scanErr, chatErr, response>>
  /\ UNCHANGED <<highlightVars, viewVars>>
  /\ UNCHANGED <<bubbleVars, md, parts, pc, textVars, chunkVars>>

\* ChatView.NewChat: cv.currentChat = nil and clearMessages
NewChat ==
  /\ ~panicked
  /\ currentChat' = 0
  /\ currentBubble' = 0
  /\ UNCHANGED <<streamCancel, isStreaming, idleQueue, bubbleTexts, dbChats, dbMessages,
                 lastChatId, reported, panicked, streamChat, streamBubble, finalized,
                 streams>>
  /\ UNCHANGED <<highlightVars, chatVars>>
  /\ UNCHANGED <<bubbleVars, md, parts, pc, textVars, chunkVars>>

\* ChatView.SetChat(chat), called when the user selects a stored chat
SetChat(chat) ==
  /\ ~panicked
  /\ IF currentChat # 0 /\ currentChat = chat
       THEN UNCHANGED <<currentChat, currentBubble>>
     ELSE currentChat' = chat /\ currentBubble' = 0
  /\ UNCHANGED <<streamCancel, isStreaming, idleQueue, bubbleTexts, dbChats, dbMessages,
                 lastChatId, reported, panicked, streamChat, streamBubble, finalized,
                 streams>>
  /\ UNCHANGED <<highlightVars, chatVars>>
  /\ UNCHANGED <<bubbleVars, md, parts, pc, textVars, chunkVars>>

\* Sidebar.confirmDeleteChat(chatID): the chat and, by cascade, its messages
\* leave the database; MainWindow.onChatDeleted calls NewChat if the chat
\* was the current one
DeleteChat(chatID) ==
  /\ ~panicked
  /\ dbChats' = dbChats \ {chatID}
  /\ dbMessages' = {m \in dbMessages : m.chat # chatID}
  /\ IF currentChat # 0 /\ currentChat = chatID
       THEN currentChat' = 0 /\ currentBubble' = 0
     ELSE UNCHANGED <<currentChat, currentBubble>>
  /\ UNCHANGED <<streamCancel, isStreaming, idleQueue, bubbleTexts, lastChatId, reported,
                 panicked, streamChat, streamBubble, finalized, streams>>
  /\ UNCHANGED <<highlightVars, chatVars>>
  /\ UNCHANGED <<bubbleVars, md, parts, pc, textVars, chunkVars>>

\* the idle callback of a token: cv.currentBubble.SetContent(content), a nil
\* pointer dereference if cv.currentBubble is nil
RunTokenUpdate ==
  /\ ~panicked
  /\ idleQueue # <<>> /\ Head(idleQueue).kind = "token"
  /\ idleQueue' = Tail(idleQueue)
  /\ IF currentBubble = 0
       THEN panicked' = TRUE /\ bubbleTexts' = bubbleTexts
     ELSE /\ panicked' = panicked
          /\ bubbleTexts' = [bubbleTexts EXCEPT ![currentBubble] = Head(idleQueue).content]
  /\ UNCHANGED <<currentChat, currentBubble, streamCancel, isStreaming, dbChats,
                 dbMessages, lastChatId, reported, streamChat, streamBubble, finalized,
                 streams>>
  /\ UNCHANGED <<highlightVars, chatVars>>
  /\ UNCHANGED <<bubbleVars, md, parts, pc, textVars, chunkVars>>

\* db.AddMessage(chatID, role, content): the foreign key of the row refuses a
\* chat that is not stored
AddMessage(chatID, role, text) ==
  IF chatID \in dbChats
    THEN dbMessages \cup {[chat |-> chatID, role |-> role, content |-> text]}
  ELSE dbMessages

\* the finalisation callback
RunFinalize ==
  /\ ~panicked
  /\ idleQueue # <<>> /\ Head(idleQueue).kind = "finalize"
  /\ idleQueue' = Tail(idleQueue)
  /\ streamCancel' = FALSE
  /\ isStreaming' = FALSE
  /\ finalized' = finalized + 1
  /\ IF Head(idleQueue).err # "nil" /\ Head(idleQueue).err # "context canceled"
       THEN reported' = Append(reported, Head(idleQueue).err) /\ dbMessages' = dbMessages
     ELSE /\ reported' = reported
          /\ dbMessages' = (IF currentChat # 0 /\ Head(idleQueue).content # <<>>
                              THEN AddMessage(currentChat, "assistant",
                                              Head(idleQueue).content)
                            ELSE dbMessages)
  /\ UNCHANGED <<currentChat, currentBubble, bubbleTexts, dbChats, lastChatId, panicked,
                 streamChat, streamBubble, streams>>
  /\ UNCHANGED <<highlightVars, chatVars>>
  /\ UNCHANGED <<bubbleVars, md, parts, pc, textVars, chunkVars>>

InitStream ==
  /\ RenderersIdle
  /\ HighlightIdle
  /\ ChunkIdle
  /\ pc = "stream"
  /\ respStatus \in {StatusOK, StatusInternalServerError}
  /\ respLines \in Bodies
  /\ ctxDone = FALSE /\ chatPc = "idle" /\ lineNo = 0 /\ scanErr = FALSE
  /\ chatErr = "running" /\ response = <<>>
  /\ currentChat = 0 /\ currentBubble = 0 /\ streamCancel = FALSE
  /\ isStreaming = FALSE /\ idleQueue = <<>> /\ bubbleTexts = <<>>
  /\ dbChats = StoredChats /\ dbMessages = {} /\ lastChatId = 1
  /\ reported = <<>> /\ panicked = FALSE
  /\ streamChat = 0 /\ streamBubble = 0 /\ finalized = 0 /\ streams = 0

NextStream ==
  \/ SendMessage
  \/ ChatDo
  \/ ChatScan
  \/ ChatLine
  \/ ChatAfter
  \/ ScheduleFinalize
  \/ RunTokenUpdate
  \/ RunFinalize
  \/ StopStreaming
  \/ NewChat
  \/ \E chat \in dbChats : SetChat(chat)
  \/ \E chatID \in dbChats : DeleteChat(chatID)

SpecStream == InitStream /\ [][NextStream]_vars

(***************************************************************************)
(* Claims on the streaming of a response.                                  *)
(***************************************************************************)
RECURSIVE TokensUntilStop(_)
\* the contents of the chunks of a body, in order, up to the first chunk that
\* carries an error (left out) or is marked done (included)
TokensUntilStop(lines) ==
  IF lines = <<>> THEN <<>>
  ELSE IF Head(lines).kind # "chunk" THEN TokensUntilStop(Tail(lines))
  ELSE IF Head(lines).error THEN <<>>
  ELSE IF Head(lines).done THEN Head(lines).content
  ELSE Head(lines).content \o TokensUntilStop(Tail(lines))

IsPrefixOf(p, s) == Len(p) <= Len(s) /\ SubSeq(s, 1, Len(p)) = p

\* Chat is at a point where it looks at the context, and the context is cancelled
ChatObservesCancel ==
  ctxDone /\ (chatPc = "do" \/ chatPc = "line" \/ (chatPc = "after" /\ scanErr))

\* Chat is about to read a chunk that carries an error
ChatReadsError ==
  chatPc = "line" /\ ~ctxDone /\ respLines[lineNo].kind = "chunk" /\ respLines[lineNo].error

\* Chat is about to see a status other than 200
ChatSeesBadStatus == chatPc = "do" /\ ~ctxDone /\ respStatus # StatusOK

\* C23: the tokens handed to the callback (their concatenation is the
\* response the closure collects) are, in order, the non-empty contents of
\* the chunks read, one call per chunk: always a prefix of the contents up to
\* the first done or error chunk, and all of them when Chat returns nil or
\* returns for an error chunk; the callback is never called by a step that
\* sees the context cancelled; the step of Chat that sees a status other
\* than 200, an error chunk or the cancelled context returns a non-nil error.
C23_TokensInOrderErrorsReturned ==
  [][/\ IsPrefixOf(response', TokensUntilStop(respLines'))
     /\ (chatErr' \in {"nil", "ollama error"} => response' = TokensUntilStop(respLines'))
     /\ (chatPc = "line" /\ response' # response => ~ctxDone)
     /\ (chatPc' # chatPc /\ (ChatObservesCancel \/ ChatReadsError \/ ChatSeesBadStatus)
           => chatPc' = "returned" /\ chatErr' # "nil" /\ response' = response)]_vars

\* a stream was cancelled after its first token, with a second chunk read
C23_Witness ==
  /\ chatErr = "context canceled" /\ response = <<"a">> /\ lineNo = 2
  /\ respLines[2].kind = "chunk" /\ respLines[2].content = <<"b">>

\* the errors Chat returns when the context was cancelled
CancelErrors == {"context canceled", "failed to send request: context canceled"}

\* C26: when the stream ends because the user stopped it, wherever the
\* cancellation lands, the finalisation hands no error to the error callback
\* and saves the partial response, if not empty, to the database.
C26_StopReportsNoErrorAndSaves ==
  [][finalized' > finalized /\ Head(idleQueue).err \in CancelErrors
       => /\ reported' = reported
          /\ (Head(idleQueue).content # <<>>
                => \E m \in dbMessages' :
                     m.role = "assistant" /\ m.content = Head(idleQueue).content)]_vars

\* C29: every token update that runs on the UI thread finds cv.currentBubble
\* set, and set to the bubble startStreaming made for the stream, whatever
\* the user did in between.
C29_TokenUpdateOnStreamBubble ==
  [][Len(idleQueue') < Len(idleQueue) /\ Head(idleQueue).kind = "token"
       => currentBubble # 0 /\ currentBubble = streamBubble /\ ~panicked']_vars

\* C30: the finalisation saves the response, if there is one and no error is
\* reported, to the chat that was current when the stream started (provided
\* that chat is still stored), whatever chat is current by then.
C30_SavedToChatOfStream ==
  [][(/\ finalized' > finalized
      /\ Head(idleQueue).err \in {"nil", "context canceled"}
      /\ Head(idleQueue).content # <<>>
      /\ streamChat \in dbChats)
       => [chat |-> streamChat, role |-> "assistant", content |-> Head(idleQueue).content]
            \in dbMessages']_vars

(***************************************************************************)
(* rag.Chunker: NewChunker, Chunk and findBreakPoint.  A text is a         *)
(* sequence of bytes, offsets count from 0 as in the code.                 *)
(***************************************************************************)
MaxTextLen == 7

MaxChunkSize == 6

MaxIterations == 8

DefaultChunkSize == 1024

\* the bytes of the texts
ChunkAlphabet == {"a", SP, NL, "."}

ChunkTexts == UNION {[1..n -> ChunkAlphabet] : n \in 0..MaxTextLen}

\* the arguments of NewChunker
ChunkSizes == 0..MaxChunkSize

Overlaps == {-1, 0, 1, MaxChunkSize}

\* NewChunker(chunkSize, overlap)
NewChunker(chunkSize, overlap) ==
  [chunkSize |-> IF chunkSize < 1 THEN DefaultChunkSize ELSE chunkSize,
   overlap |-> IF overlap > (IF chunkSize < 1 THEN DefaultChunkSize ELSE chunkSize) \div 2
                 THEN (IF chunkSize < 1 THEN DefaultChunkSize ELSE chunkSize) \div 2
               ELSE IF overlap < 0 THEN 0
               ELSE overlap]

\* s[from:to]
Slice(s, from, to) == SubSeq(s, from + 1, to)

\* strings.LastIndex(s, sep): the offset of the last occurrence, -1 if none
LastIndex(s, sep) ==
  IF \E i \in 0..(Len(s) - Len(sep)) : Slice(s, i, i + Len(sep)) = sep
    THEN CHOOSE i \in 0..(Len(s) - Len(sep)) :
           /\ Slice(s, i, i + Len(sep)) = sep
           /\ \A j \in (i + 1)..(Len(s) - Len(sep)) : Slice(s, j, j + Len(sep)) # sep
  ELSE -1

\* the sentence ends findBreakPoint looks for, in its order
SentenceEnds ==
  <<<<".", SP>>, <<"!", SP>>, <<"?", SP>>, <<".", NL>>, <<"!", NL>>, <<"?", NL>>>>

\* the sentence ends that occur in the second half of the segment
SentenceEndsFound(segment) ==
  SelectSeq(SentenceEnds, LAMBDA sep : LastIndex(segment, sep) > Len(segment) \div 2)

\* the break point in a segment that starts at offset from and would end at to
BreakInSegment(segment, from, to) ==
  IF LastIndex(segment, <<NL, NL>>) > Len(segment) \div 2
    THEN from + LastIndex(segment, <<NL, NL>>) + 2
  ELSE IF SentenceEndsFound(segment) # <<>>
    THEN from + LastIndex(segment, Head(SentenceEndsFound(segment)))
           + Len(Head(SentenceEndsFound(segment)))
  ELSE IF LastIndex(segment, <<NL>>) > Len(segment) \div 2
    THEN from + LastIndex(segment, <<NL>>) + 1
  ELSE IF LastIndex(segment, <<SP>>) > Len(segment) \div 4
    THEN from + LastIndex(segment, <<SP>>) + 1
  ELSE to

\* Chunker.findBreakPoint(text, start, end)
findBreakPoint(t, from, to) ==
  IF to >= Len(t) THEN Len(t) ELSE BreakInSegment(Slice(t, from, to), from, to)

\* the value of start at the end of an iteration that broke at breakPoint
NextStart(breakPoint, overlap) ==
  IF (IF breakPoint - overlap < 0 THEN 0 ELSE breakPoint - overlap) >= breakPoint
    THEN breakPoint
  ELSE IF breakPoint - overlap < 0 THEN 0
  ELSE breakPoint - overlap

\* chunks with the chunk appended, unless the chunk is empty
WithChunk(cs, chunk) == IF chunk # <<>> THEN Append(cs, chunk) ELSE cs

InitChunk ==
  /\ RenderersIdle
  /\ HighlightIdle
  /\ StreamIdle
  /\ pc = "chunk"
  /\ chunker \in {NewChunker(size, overlap) : size \in ChunkSizes, overlap \in Overlaps}
  /\ chunkText \in ChunkTexts
  /\ chunkStart = 0 /\ chunks = <<>> /\ chunkPc = "input" /\ iterations = 0

\* Chunk, up to the loop
ChunkBegin ==
  /\ chunkPc = "input"
  /\ chunkText' = TrimSpace(chunkText)
  /\ IF TrimSpace(chunkText) = <<>>
       THEN chunks' = <<>> /\ chunkPc' = "returned"
     ELSE IF Len(TrimSpace(chunkText)) <= chunker.chunkSize
       THEN chunks' = <<TrimSpace(chunkText)>> /\ chunkPc' = "returned"
     ELSE chunks' = <<>> /\ chunkPc' = "loop"
  /\ chunkStart' = 0
  /\ UNCHANGED <<chunker, iterations>>
  /\ UNCHANGED <<bubbleVars, md, parts, pc, textVars, highlightVars, chatVars, viewVars>>

\* the iteration of the loop that broke at breakPoint and goes on
ChunkGoesOn(breakPoint) ==
  /\ chunks' = WithChunk(chunks, TrimSpace(Slice(chunkText, chunkStart, breakPoint)))
  /\ chunkStart' = NextStart(breakPoint, chunker.overlap)
  /\ chunkPc' = "loop"

\* one iteration of the loop of Chunk, or its end
ChunkIterate ==
  /\ chunkPc = "loop"
  /\ iterations < MaxIterations
  /\ iterations' = iterations + 1
  /\ IF chunkStart >= Len(chunkText)
       THEN UNCHANGED <<chunks, chunkStart>> /\ chunkPc' = "returned"
     ELSE IF chunkStart + chunker.chunkSize >= Len(chunkText)
       THEN /\ chunks' = Append(chunks,
                                TrimSpace(Slice(chunkText, chunkStart, Len(chunkText))))
            /\ chunkPc' = "returned"
            /\ chunkStart' = chunkStart
     ELSE ChunkGoesOn(findBreakPoint(chunkText, chunkStart,
                                     chunkStart + chunker.chunkSize))
  /\ UNCHANGED <<chunker, chunkText>>
  /\ UNCHANGED <<bubbleVars, md, parts, pc, textVars, highlightVars, chatVars, viewVars>>

NextChunk == ChunkBegin \/ ChunkIterate

SpecChunk == InitChunk /\ [][NextChunk]_vars

\* C25: Chunk terminates: every iteration of the loop that does not emit the
\* last chunk leaves start greater than it found it.
C25_StartIncreases ==
  [][chunkPc = "loop" /\ chunkPc' = "loop" /\ iterations' > iterations
       => chunkStart' > chunkStart]_vars

====
